---- MODULE Spec2Model ----
(***************************************************************************)
(* A model of the replicated write path (coordinator/src/raft/writer.rs),  *)
(* of the TSM page, column group, chunk and footer (tskv/src/tsm/page.rs)  *)
(* of the limited parallel merge (tskv/src/reader/paralle_merge.rs) and of *)
(* the partitioned cursor stream (tskv/src/reader/partitioned_stream.rs)   *)
(* and of the storage node's RPC service (main/src/rpc/tskv.rs) of cnosdb. *)
(*                                                                         *)
(* WriterSpec : one call of RaftWriter::write_to_replica, one step per     *)
(*              awaited call, the answers of the consensus log, the        *)
(*              catalog and the remote nodes chosen by the environment.    *)
(* PageSpec   : a page envelope, its corruption, and Page::crc_validation. *)
(* ColumnSpec : a page built from optional values, damage to its stored    *)
(*              bytes, and Page::to_column.                                *)
(* GroupSpec  : ColumnGroup::push, with and without debug assertions.      *)
(* ChunkSpec  : Chunk::push and Chunk::next_column_group_id.               *)
(* FooterSpec : a footer, its bloom filter, serialize and deserialize.     *)
(* MergeSpec  : ParallelMergeAdapter::process and the polls of its stream. *)
(* CursorSpec : ColumnCursorStream::new and poll_next of its partitions.   *)
(* DownloadSpec : TskvService::download_file, its task and its stream.     *)
(* ServiceSpec : TskvService::exec_raft_write_command.                     *)
(* AdminSpec  : TskvServiceImpl::warp_exec_admin_command.                  *)
(***************************************************************************)
EXTENDS Integers, Sequences, FiniteSets, TLC

VARIABLES
    \* ---- RaftWriter::write_to_replica ----
    pc,            \* position of the call
    config,        \* self.config: [node_id]
    kv_inst,       \* self.kv_inst.is_some()
    args,          \* the arguments: [tenant, db_name, data, precision, replica]
    calls,         \* every call the write has made so far, in order, with its answer
    result,        \* the outer `result` of write_to_replica (the leader call's)
    vnode_idx,     \* position of the `for vnode in replica.vnodes.iter()` loop
    leader_vnode_id, \* the leader_vnode_id bound from ForwardToLeader
    all_info,      \* process_leader_change: the answer of get_vnode_all_info
    ret,           \* what write_to_replica returned
    \* ---- Page ----
    page,          \* a Page: [bytes, meta]
    flips,         \* how many bytes of the page were overwritten since it was built
    crc_ret,       \* what Page::crc_validation returned
    \* ---- Page::to_column ----
    col_page,      \* the Page to_column is called on
    col_vals,      \* the optional values the page was built from
    damage,        \* how many times the stored bytes changed since the page was built
    col_ret,       \* what Page::to_column returned
    \* ---- ColumnGroup ----
    column_group,     \* a ColumnGroup: [column_group_id, pages_offset, size, time_range, pages]
    debug_assertions, \* whether the build checks debug_assert_eq!
    panicked,         \* a debug assertion of ColumnGroup::push failed
    \* ---- Chunk ----
    chunk,         \* a Chunk: [time_range, next_column_group_id, column_groups]
    chunk_call,    \* the last call on the chunk: its argument, the chunk before it, its result
    push_order,    \* the column groups Chunk::push inserted, in the order of the calls
    calls_made,    \* how many calls the chunk has served
    \* ---- Footer ----
    footer,        \* a Footer: [version, time_range, table, series]
    inserted,      \* the series ids inserted into the footer's bloom filter
    footer_bytes,  \* what footer.serialize() returned, once called
    footer_read,   \* what Footer::deserialize returned for these bytes, once called
    \* ---- ParallelMergeAdapter ----
    inputs,        \* per child reader: whether process() succeeds and the items it still holds
    limit,         \* self.limit
    merge_stream,  \* what process() returned: "none" before the call, "Ok" or an error
    remain,        \* SchemableParallelMergeStream.remain
    emitted,       \* what poll_next has returned so far, in order
    \* ---- ColumnCursorStream ----
    cursor_src,    \* the record batch streams given to ColumnCursorStream::new
    cursor_stream, \* what new returned: the fused streams and time_column_idx
    cursor_polled, \* per partition, what poll_next has returned so far, in order
    \* ---- TskvService::download_file ----
    file,          \* the file named by the request: its bytes, or None if it cannot be opened
    task,          \* position of the spawned task
    file_pos,      \* how many bytes of the file the task has read
    file_buffer,        \* the task's read file_buffer
    read_ret,      \* what the last file.read returned
    channel,       \* the frames sent and not yet received
    recv,          \* the receiving half, which is the response stream
    received,      \* the frames the response stream has yielded, in order
    \* ---- TskvService::exec_raft_write_command ----
    svc_meta,      \* the catalog: per known tenant the ids of its replication sets
    inner,         \* the RaftWriteCommand: [tenant, replica_id]
    svc_pc,        \* position of the handler
    svc_calls,     \* the calls on the coordinator the handler has made, with their answers
    svc_ret,       \* what the handler returned
    \* ---- TskvServiceImpl::warp_exec_admin_command ----
    admin_pc,      \* position of the call
    admin_tenant,  \* the tenant argument
    admin_command, \* the command argument
    admin_calls,   \* every call the handler has made so far, in order, with its answer
    admin_result,  \* `result`: the answer of the local execution
    admin_info,    \* the answer of get_vnode_all_info
    admin_ret      \* what warp_exec_admin_command returned

writerVars == <<pc, config, kv_inst, args, calls, result, vnode_idx,
    leader_vnode_id, all_info, ret>>
pageVars == <<page, flips, crc_ret>>
columnVars == <<col_page, col_vals, damage, col_ret>>
groupVars == <<column_group, debug_assertions, panicked>>
chunkVars == <<chunk, chunk_call, push_order, calls_made>>
footerVars == <<footer, inserted, footer_bytes, footer_read>>
mergeVars == <<inputs, limit, merge_stream, remain, emitted>>
cursorVars == <<cursor_src, cursor_stream, cursor_polled>>
serviceVars == <<svc_meta, inner, svc_pc, svc_calls, svc_ret>>
downloadVars == <<file, task, file_pos, file_buffer, read_ret, channel,
    recv, received>>
adminVars == <<admin_pc, admin_tenant, admin_command, admin_calls,
    admin_result, admin_info, admin_ret>>
vars == <<writerVars, pageVars, columnVars, groupVars, chunkVars,
    footerVars, mergeVars, cursorVars, serviceVars, downloadVars,
    adminVars>>
\* What each part of the model leaves alone.
nonWriterVars == <<pageVars, columnVars, groupVars, chunkVars, footerVars,
    mergeVars, cursorVars, serviceVars, downloadVars, adminVars>>
nonPageVars == <<writerVars, columnVars, groupVars, chunkVars, footerVars,
    mergeVars, cursorVars, serviceVars, downloadVars, adminVars>>
nonColumnVars == <<writerVars, pageVars, groupVars, chunkVars, footerVars,
    mergeVars, cursorVars, serviceVars, downloadVars, adminVars>>
nonGroupVars == <<writerVars, pageVars, columnVars, chunkVars, footerVars,
    mergeVars, cursorVars, serviceVars, downloadVars, adminVars>>
nonChunkVars == <<writerVars, pageVars, columnVars, groupVars, footerVars,
    mergeVars, cursorVars, serviceVars, downloadVars, adminVars>>
nonFooterVars == <<writerVars, pageVars, columnVars, groupVars, chunkVars,
    mergeVars, cursorVars, serviceVars, downloadVars, adminVars>>
nonMergeVars == <<writerVars, pageVars, columnVars, groupVars, chunkVars,
    footerVars, cursorVars, serviceVars, downloadVars, adminVars>>
nonCursorVars == <<writerVars, pageVars, columnVars, groupVars, chunkVars,
    footerVars, mergeVars, serviceVars, downloadVars, adminVars>>
nonServiceVars == <<writerVars, pageVars, columnVars, groupVars, chunkVars,
    footerVars, mergeVars, cursorVars, downloadVars, adminVars>>
nonDownloadVars == <<writerVars, pageVars, columnVars, groupVars, chunkVars,
    footerVars, mergeVars, cursorVars, serviceVars, adminVars>>
nonAdminVars == <<writerVars, pageVars, columnVars, groupVars, chunkVars,
    footerVars, mergeVars, cursorVars, serviceVars, downloadVars>>

(***************************************************************************)
(* Bounds of the model.                                                    *)
(***************************************************************************)
MaxNode == 3
MaxVnodes == 3
MaxBitsetLen == 1
MaxPayloadLen == 2
MaxFlips == 1
MaxRows == 3
MaxDamage == 1
MaxPages == 3
MaxCgId == 2
MaxCalls == 3
MaxBloomBytes == 1
MaxChildren == 2
MaxPartitions == 2
MaxPolls == 4
MaxFileLen == 5
BufferLen == 2
ChannelCapacity == 2

Nodes == 1..MaxNode

\* A u64 as its upper and its lower 32 bits; `x as u32` keeps the lower ones.
U64(hi, lo) == [hi |-> hi, lo |-> lo]
AsU32(x) == x.lo

(***************************************************************************)
(* CoordinatorResult<()>                                                   *)
(***************************************************************************)
Res(kind, id, msg, replica_id) ==
    [kind |-> kind, id |-> id, msg |-> msg, replica_id |-> replica_id]

Ok == Res("Ok", 0, "", 0)
NoResult == Res("None", 0, "", 0)
FailoverNode(id, error) == Res("FailoverNode", id, error, 0)
TskvError(source) == Res("TskvError", 0, source, 0)
CommonError(msg) == Res("CommonError", 0, msg, 0)
RaftWriteError(msg) == Res("RaftWriteError", 0, msg, 0)
ForwardToLeader(replica_id, vnode) == Res("ForwardToLeader", vnode, "", replica_id)
TenantNotFound(name) == Res("TenantNotFound", 0, name, 0)
VnodeNotFound(id) == Res("VnodeNotFound", id, "", 0)
RaftNodeError == Res("RaftNodeError", 0, "open raft node", 0)
GRPCRequestError(msg) == Res("GRPCRequest", 0, msg, 0)

IsOk(r) == r.kind = "Ok"
IsFailoverNode(r) == r.kind = "FailoverNode"
IsForwardToLeader(r) == r.kind = "ForwardToLeader"

(***************************************************************************)
(* WriteReplicaRequest and its serialisation for the consensus log.        *)
(***************************************************************************)
WriteReplicaRequest(replica_id, db_name, data, precision, tenant) ==
    [replica_id |-> replica_id, db_name |-> db_name, data |-> data,
     precision |-> precision, tenant |-> tenant]

NoRequest == WriteReplicaRequest(0, "", <<>>, 0, "")

\* `precision as u32`: the discriminant of the fieldless Precision enum.
PrecisionAsU32(precision) == precision

\* to_prost_bytes: the fields in field-number order, each behind its number.
ToProstBytes(request) ==
    << <<1, request.replica_id>>, <<2, request.tenant>>, <<3, request.db_name>>,
       <<4, request.precision>>, <<5, request.data>> >>

\* The decoding the state machine applies to a log entry.
FromProstBytes(bytes) ==
    IF Len(bytes) = 5 /\ \A i \in 1..5 : bytes[i][1] = i
    THEN WriteReplicaRequest(bytes[1][2], bytes[3][2], bytes[5][2], bytes[4][2], bytes[2][2])
    ELSE NoRequest

\* The four places that build the request of a write.
FollowerRequestMutData(a) ==
    WriteReplicaRequest(a.replica.id, a.db_name, <<>>, PrecisionAsU32(a.precision), a.tenant)
LeaderRequest(a) ==
    WriteReplicaRequest(a.replica.id, a.db_name, a.data, PrecisionAsU32(a.precision), a.tenant)
FollowerRequest(a) ==
    WriteReplicaRequest(a.replica.id, a.db_name, a.data, PrecisionAsU32(a.precision), a.tenant)
LocalRequest(a) ==
    WriteReplicaRequest(a.replica.id, a.db_name, a.data, PrecisionAsU32(a.precision), a.tenant)
ForwardRequest(a) ==
    WriteReplicaRequest(a.replica.id, a.db_name, a.data, PrecisionAsU32(a.precision), a.tenant)

(***************************************************************************)
(* The answers of the environment.                                         *)
(***************************************************************************)
SUCCESS_RESPONSE_CODE == 0
FAILED_RESPONSE_CODE == 1

Rpc(step, status, code, data) ==
    [step |-> step, status |-> status, code |-> code, data |-> data]
NoRpc == Rpc("none", "", 0, "")
\* What one remote call can meet: no connection, a trace context that does not
\* parse, a gRPC status (a timeout of write_timeout_ms is one), or a response.
RpcAnswers ==
    {Rpc("conn_err", "", 0, ""), Rpc("trace_err", "", 0, "")}
    \cup {Rpc("status", s, 0, "") : s \in {"Internal", "DeadlineExceeded"}}
    \cup {Rpc("response", "", SUCCESS_RESPONSE_CODE, ""),
          Rpc("response", "", FAILED_RESPONSE_CODE, "write failed")}

\* Option<T>: None, or Some(x).
None == <<>>
Some(x) == <<x>>
Raft(kind, leader_id, leader_node) ==
    [kind |-> kind, leader_id |-> leader_id, leader_node |-> leader_node]
NoRaft == Raft("none", None, None)
LeaderIds == {U64(0, 7), U64(1, 8)}
GroupIds == {10, 11}
\* What client_write can answer: success, forward-to-leader with the leader id
\* and the leader node each known or not, or another error.
RaftAnswers ==
    {Raft("ok", None, None), Raft("error", None, None)}
    \cup {Raft("forward", l, g) : l \in {Some(x) : x \in LeaderIds} \cup {None},
                                   g \in {Some(x) : x \in GroupIds} \cup {None}}

VnodeAllInfo(found, node_id, db_name, bucket_id) ==
    [found |-> found, node_id |-> node_id, db_name |-> db_name, bucket_id |-> bucket_id]
NoInfo == VnodeAllInfo(FALSE, 0, "", 0)
VnodeAnswers == {NoInfo} \cup {VnodeAllInfo(TRUE, n, "d", 5) : n \in Nodes}

Arg(db_name, bucket_id, replica_id, node_id, vnode_id) ==
    [db_name |-> db_name, bucket_id |-> bucket_id, replica_id |-> replica_id,
     node_id |-> node_id, vnode_id |-> vnode_id]
NoArg == Arg("", 0, 0, 0, 0)

\* One entry of `calls`.
Call(op, node, req, bytes, rpc, raft, res, arg) ==
    [op |-> op, node |-> node, req |-> req, bytes |-> bytes, rpc |-> rpc,
     raft |-> raft, res |-> res, arg |-> arg]

(***************************************************************************)
(* Pure parts of RaftWriter.                                               *)
(***************************************************************************)
\* crate::status_response_to_result
StatusResponseToResult(response) ==
    IF response.code = SUCCESS_RESPONSE_CODE THEN Ok ELSE GRPCRequestError(response.data)

\* write_to_remote that takes an Internal status for a node to fail over from.
WriteToRemoteMutInternalFailsOver(leader_id, rpc) ==
    CASE rpc.step = "conn_err" -> FailoverNode(leader_id, "get_node_conn")
      [] rpc.step = "trace_err" -> CommonError("Parse trace_id, this maybe a bug")
      [] rpc.step = "status" -> FailoverNode(leader_id, rpc.status)
      [] OTHER -> StatusResponseToResult(rpc)

\* write_to_remote, given what the call met.
WriteToRemote(leader_id, rpc) ==
    CASE rpc.step = "conn_err" -> FailoverNode(leader_id, "get_node_conn")
      [] rpc.step = "trace_err" -> CommonError("Parse trace_id, this maybe a bug")
      [] rpc.step = "status" ->
            IF rpc.status = "Internal" THEN TskvError(rpc.status)
            ELSE FailoverNode(leader_id, rpc.status)
      [] OTHER -> StatusResponseToResult(rpc)

\* write_to_raft that forwards whenever the leader node is known.
WriteToRaftMutLeaderIdUnchecked(raft) ==
    IF raft.kind = "ok" THEN Ok
    ELSE IF raft.kind = "forward" /\ raft.leader_node # None
         THEN ForwardToLeader(raft.leader_node[1],
                              IF raft.leader_id = None THEN 0 ELSE AsU32(raft.leader_id[1]))
         ELSE RaftWriteError("client_write")

\* write_to_raft, given what client_write answered.
WriteToRaft(raft) ==
    IF raft.kind = "ok" THEN Ok
    ELSE IF raft.kind = "forward" /\ raft.leader_id # None /\ raft.leader_node # None
         THEN ForwardToLeader(raft.leader_node[1], AsU32(raft.leader_id[1]))
         ELSE RaftWriteError("client_write")

\* `leader_id == node_id && self.kv_inst.is_some()`
TakesLocalPathMutNoEngine(node_id, leader_id, kv) == leader_id = node_id
TakesLocalPath(node_id, leader_id, kv) == leader_id = node_id /\ kv

\* `if let Err(FailoverNode) = result` after the call to the leader.
LeaderCallFailsOverMutAnyErr(r) == ~IsOk(r)
LeaderCallFailsOverMutNever(r) == FALSE
LeaderCallFailsOver(r) == IsFailoverNode(r)

\* The loop's `if vnode.node_id == leader_id { continue; }`
SkipsVnodeMutNone(vnode, leader_id) == FALSE
SkipsVnode(vnode, leader_id) == vnode.node_id = leader_id

\* A loop that, after a failover, tries the vnode it has just tried again.
NextFollowerMutStays(vnodes, leader_id, from) ==
    LET S == {j \in from..Len(vnodes) : ~SkipsVnode(vnodes[j], leader_id)}
    IN IF from > 1 THEN from - 1
       ELSE IF S = {} THEN Len(vnodes) + 1 ELSE CHOOSE j \in S : \A k \in S : j <= k

\* The first position >= from of a vnode the loop calls; Len + 1 when none is left.
NextFollower(vnodes, leader_id, from) ==
    LET S == {j \in from..Len(vnodes) : ~SkipsVnode(vnodes[j], leader_id)}
    IN IF S = {} THEN Len(vnodes) + 1 ELSE CHOOSE j \in S : \A k \in S : j <= k

\* `if result.is_ok() { return Ok(()) }`
LoopReturnsOkMutAlways(r) == TRUE
LoopReturnsOk(r) == IsOk(r)

\* `if let Err(FailoverNode) = result { continue } else { return result }`
LoopContinues(r) == IsFailoverNode(r)

\* The trailing `result` of the remote branch: the outer binding, which the
\* loop's own `let result` shadows and never assigns.
TrailingResultMutLast(outer, last) == last
TrailingResult(outer, last) == outer

\* `if let Err(ForwardToLeader { .. }) = result` after the proposal.
ProposalForwardsMutAnyErr(r) == ~IsOk(r)
ProposalForwards(r) == IsForwardToLeader(r)

\* The node process_leader_change writes to: all_info.node_id.
ForwardTargetMutOldLeader(info, replica) == replica.leader_node_id
ForwardTarget(info, replica) == info.node_id

(***************************************************************************)
(* RaftWriter::write_to_replica, one action per awaited call.              *)
(***************************************************************************)
\* The payload and the precision of an incoming write.
Writes == {[data |-> <<1, 2>>, precision |-> 0], [data |-> <<3>>, precision |-> 2]}
VnodeLists ==
    UNION {{[i \in 1..n |-> [id |-> i, node_id |-> f[i]]] : f \in [1..n -> Nodes]}
           : n \in 0..MaxVnodes}
ReplicationSets ==
    {[id |-> 10, leader_node_id |-> l, vnodes |-> v] : l \in Nodes, v \in VnodeLists}

WriterInit ==
    /\ pc = "start"
    /\ config = [node_id |-> 1]
    /\ kv_inst \in BOOLEAN
    /\ args \in {[tenant |-> "t", db_name |-> "d", data |-> w.data,
                  precision |-> w.precision, replica |-> r]
                 : w \in Writes, r \in ReplicationSets}
    /\ calls = <<>>
    /\ result = NoResult
    /\ vnode_idx = 0
    /\ leader_vnode_id = 0
    /\ all_info = NoInfo
    /\ ret = NoResult

WriterIdle ==
    /\ pc = "off"
    /\ config = [node_id |-> 1]
    /\ kv_inst = FALSE
    /\ args = [tenant |-> "", db_name |-> "", data |-> <<>>, precision |-> 0,
               replica |-> [id |-> 0, leader_node_id |-> 0, vnodes |-> <<>>]]
    /\ calls = <<>>
    /\ result = NoResult
    /\ vnode_idx = 0
    /\ leader_vnode_id = 0
    /\ all_info = NoInfo
    /\ ret = NoResult

Return(r) == pc' = "done" /\ ret' = r

\* write_to_replica up to its first await: the choice of the path.
WriteToReplica ==
    /\ pc = "start"
    /\ pc' = IF TakesLocalPath(config.node_id, args.replica.leader_node_id, kv_inst)
             THEN "local" ELSE "remote"
    /\ UNCHANGED <<config, kv_inst, args, calls, result, vnode_idx, leader_vnode_id,
                   all_info, ret>>
    /\ UNCHANGED nonWriterVars

\* write_to_local_or_forward: `raft_manager.get_node_or_build(..).await?`
GetNodeOrBuild ==
    /\ pc = "local"
    /\ \E built \in BOOLEAN :
         LET r == IF built THEN Ok ELSE RaftNodeError IN
         /\ calls' = Append(calls, Call("get_node_or_build", config.node_id, NoRequest,
                                        <<>>, NoRpc, NoRaft, r, NoArg))
         /\ IF built THEN pc' = "propose" /\ ret' = ret ELSE Return(r)
    /\ UNCHANGED <<config, kv_inst, args, result, vnode_idx, leader_vnode_id, all_info>>
    /\ UNCHANGED nonWriterVars

\* write_to_local_or_forward: the proposal, and the match on its result.
ProposeToRaft ==
    /\ pc = "propose"
    /\ \E raft \in RaftAnswers :
         LET request == LocalRequest(args)
             r == WriteToRaft(raft) IN
         /\ calls' = Append(calls, Call("propose", config.node_id, NoRequest,
                                        ToProstBytes(request), NoRpc, raft, r, NoArg))
         /\ IF ProposalForwards(r)
            THEN /\ pc' = "vnode_info"
                 /\ leader_vnode_id' = r.id
                 /\ ret' = ret
            ELSE /\ Return(r)
                 /\ leader_vnode_id' = leader_vnode_id
    /\ UNCHANGED <<config, kv_inst, args, result, vnode_idx, all_info>>
    /\ UNCHANGED nonWriterVars

\* process_leader_change: `get_vnode_all_info(meta, tenant, vnode_id).await?`
GetVnodeAllInfo ==
    /\ pc = "vnode_info"
    /\ \E info \in VnodeAnswers :
         LET r == IF info.found THEN Ok ELSE VnodeNotFound(leader_vnode_id) IN
         /\ calls' = Append(calls, Call("get_vnode_all_info", 0, NoRequest, <<>>, NoRpc,
                                        NoRaft, r, Arg("", 0, 0, 0, leader_vnode_id)))
         /\ all_info' = info
         /\ IF info.found THEN pc' = "tenant_meta" /\ ret' = ret ELSE Return(r)
    /\ UNCHANGED <<config, kv_inst, args, result, vnode_idx, leader_vnode_id>>
    /\ UNCHANGED nonWriterVars

\* A tenant_meta step that goes on without the tenant's catalog.
TenantMetaMutGoesOn ==
    /\ pc = "tenant_meta"
    /\ \E found \in BOOLEAN :
         LET r == IF found THEN Ok ELSE TenantNotFound(args.tenant) IN
         calls' = Append(calls, Call("tenant_meta", 0, NoRequest, <<>>, NoRpc,
                                     NoRaft, r, NoArg))
    /\ pc' = "change_leader"
    /\ UNCHANGED <<config, kv_inst, args, result, vnode_idx, leader_vnode_id, all_info, ret>>
    /\ UNCHANGED nonWriterVars

\* process_leader_change: `meta.tenant_meta(tenant).await.ok_or(TenantNotFound)?`
TenantMeta ==
    /\ pc = "tenant_meta"
    /\ \E found \in BOOLEAN :
         LET r == IF found THEN Ok ELSE TenantNotFound(args.tenant) IN
         /\ calls' = Append(calls, Call("tenant_meta", 0, NoRequest, <<>>, NoRpc,
                                        NoRaft, r, NoArg))
         /\ IF found THEN pc' = "change_leader" /\ ret' = ret ELSE Return(r)
    /\ UNCHANGED <<config, kv_inst, args, result, vnode_idx, leader_vnode_id, all_info>>
    /\ UNCHANGED nonWriterVars

\* A change_repl_set_leader step whose failure fails the write.
ChangeReplSetLeaderMutFailsWrite ==
    /\ pc = "change_leader"
    /\ \E changed \in BOOLEAN :
         LET request == ForwardRequest(args)
             rsp == IF changed THEN Ok ELSE Res("MetaError", 0, "change leader", 0) IN
         /\ calls' = Append(calls, Call("change_repl_set_leader", 0, NoRequest, <<>>,
                                        NoRpc, NoRaft, rsp,
                                        Arg(all_info.db_name, all_info.bucket_id,
                                            request.replica_id, all_info.node_id,
                                            leader_vnode_id)))
         /\ IF changed THEN pc' = "forward" /\ ret' = ret ELSE Return(rsp)
    /\ UNCHANGED <<config, kv_inst, args, result, vnode_idx, leader_vnode_id, all_info>>
    /\ UNCHANGED nonWriterVars

\* A change_repl_set_leader step that names the replica id of the
\* ForwardToLeader error instead of the request's.
ChangeReplSetLeaderMutHintGroup ==
    /\ pc = "change_leader"
    /\ \E changed \in BOOLEAN :
         LET hint == calls[CHOOSE k \in 1..Len(calls) : calls[k].op = "propose"].res
             rsp == IF changed THEN Ok ELSE Res("MetaError", 0, "change leader", 0) IN
         calls' = Append(calls, Call("change_repl_set_leader", 0, NoRequest, <<>>, NoRpc,
                                     NoRaft, rsp,
                                     Arg(all_info.db_name, all_info.bucket_id,
                                         hint.replica_id, all_info.node_id,
                                         leader_vnode_id)))
    /\ pc' = "forward"
    /\ UNCHANGED <<config, kv_inst, args, result, vnode_idx, leader_vnode_id, all_info, ret>>
    /\ UNCHANGED nonWriterVars

\* process_leader_change: `change_repl_set_leader(..).await`, its answer only logged.
ChangeReplSetLeader ==
    /\ pc = "change_leader"
    /\ \E changed \in BOOLEAN :
         LET request == ForwardRequest(args)
             rsp == IF changed THEN Ok ELSE Res("MetaError", 0, "change leader", 0) IN
         calls' = Append(calls, Call("change_repl_set_leader", 0, NoRequest, <<>>, NoRpc,
                                     NoRaft, rsp,
                                     Arg(all_info.db_name, all_info.bucket_id,
                                         request.replica_id, all_info.node_id,
                                         leader_vnode_id)))
    /\ pc' = "forward"
    /\ UNCHANGED <<config, kv_inst, args, result, vnode_idx, leader_vnode_id, all_info, ret>>
    /\ UNCHANGED nonWriterVars

\* process_leader_change: `self.write_to_remote(all_info.node_id, request, ..).await`,
\* whose result is the result of the write.
WriteToNewLeader ==
    /\ pc = "forward"
    /\ \E rpc \in RpcAnswers :
         LET node == ForwardTarget(all_info, args.replica)
             r == WriteToRemote(node, rpc) IN
         /\ calls' = Append(calls, Call("write_to_remote", node, ForwardRequest(args),
                                        <<>>, rpc, NoRaft, r, NoArg))
         /\ Return(r)
    /\ UNCHANGED <<config, kv_inst, args, result, vnode_idx, leader_vnode_id, all_info>>
    /\ UNCHANGED nonWriterVars

\* The remote branch: the call to the leader node, and the test for failover.
WriteToLeader ==
    /\ pc = "remote"
    /\ \E rpc \in RpcAnswers :
         LET leader_id == args.replica.leader_node_id
             r == WriteToRemote(leader_id, rpc) IN
         /\ calls' = Append(calls, Call("write_to_remote", leader_id, LeaderRequest(args),
                                        <<>>, rpc, NoRaft, r, NoArg))
         /\ result' = r
         /\ IF LeaderCallFailsOver(r)
            THEN /\ pc' = "failover"
                 /\ vnode_idx' = 1
                 /\ ret' = ret
            ELSE /\ Return(r)
                 /\ vnode_idx' = vnode_idx
    /\ UNCHANGED <<config, kv_inst, args, leader_vnode_id, all_info>>
    /\ UNCHANGED nonWriterVars

\* One iteration of the loop that calls a vnode (the iterations that `continue`
\* at once are passed over), up to the next await or the return.
WriteToFollower ==
    /\ pc = "failover"
    /\ LET vnodes == args.replica.vnodes
           i == NextFollower(vnodes, args.replica.leader_node_id, vnode_idx) IN
       /\ i <= Len(vnodes)
       /\ \E rpc \in RpcAnswers :
            LET r == WriteToRemote(vnodes[i].node_id, rpc) IN
            /\ calls' = Append(calls, Call("write_to_remote", vnodes[i].node_id,
                                           FollowerRequest(args), <<>>, rpc, NoRaft, r,
                                           NoArg))
            /\ IF LoopReturnsOk(r) THEN Return(Ok) /\ vnode_idx' = vnode_idx
               ELSE IF LoopContinues(r) THEN /\ vnode_idx' = i + 1
                                             /\ pc' = pc
                                             /\ ret' = ret
               ELSE Return(r) /\ vnode_idx' = vnode_idx
    /\ UNCHANGED <<config, kv_inst, args, result, leader_vnode_id, all_info>>
    /\ UNCHANGED nonWriterVars

\* The loop ends with no vnode left: the trailing `result`.
FailoverExhausted ==
    /\ pc = "failover"
    /\ NextFollower(args.replica.vnodes, args.replica.leader_node_id, vnode_idx)
         > Len(args.replica.vnodes)
    /\ Return(TrailingResult(result, calls[Len(calls)].res))
    /\ UNCHANGED <<config, kv_inst, args, calls, result, vnode_idx, leader_vnode_id,
                   all_info>>
    /\ UNCHANGED nonWriterVars

WriterNext ==
    \/ WriteToReplica
    \/ GetNodeOrBuild
    \/ ProposeToRaft
    \/ GetVnodeAllInfo
    \/ TenantMeta
    \/ ChangeReplSetLeader
    \/ WriteToNewLeader
    \/ WriteToLeader
    \/ WriteToFollower
    \/ FailoverExhausted

(***************************************************************************)
(* Page: the envelope                                                      *)
(*   [u32 bitset_len][u64 data_len][u32 crc32][bitset][payload]            *)
(* with big-endian integers, and Page::crc_validation.                     *)
(***************************************************************************)
Byte == 0..255

\* A u32 as its upper and its lower 16 bits.
U32(hi, lo) == [hi |-> hi, lo |-> lo]

RECURSIVE Xor(_, _)
Xor(a, b) ==
    IF a = 0 THEN b
    ELSE IF b = 0 THEN a
    ELSE ((a + b) % 2) + 2 * Xor(a \div 2, b \div 2)
Xor32(x, y) == U32(Xor(x.hi, y.hi), Xor(x.lo, y.lo))
Shr32(x) == U32(x.hi \div 2, (x.lo \div 2) + (x.hi % 2) * 32768)

\* CRC-32 (IEEE 802.3), reflected, as crc32fast computes it: the polynomial
\* 0xEDB88320 and the mask 0xFFFFFFFF, in halves.
CrcPolyHi == 60856
CrcPolyLo == 33568
CrcMaskHalf == 65535
CrcPoly == U32(CrcPolyHi, CrcPolyLo)
CrcMask == U32(CrcMaskHalf, CrcMaskHalf)

CrcShift(c) == IF c.lo % 2 = 1 THEN Xor32(Shr32(c), CrcPoly) ELSE Shr32(c)
CrcUpdateByte(c, b) ==
    CrcShift(CrcShift(CrcShift(CrcShift(CrcShift(CrcShift(CrcShift(CrcShift(
        Xor32(c, U32(0, b))))))))))

RECURSIVE CrcUpdate(_, _)
CrcUpdate(c, bytes) ==
    IF bytes = <<>> THEN c
    ELSE LET next == CrcUpdateByte(c, Head(bytes))
         IN  IF next.hi >= 0 THEN CrcUpdate(next, Tail(bytes)) ELSE next

\* Hasher::new(); update(bytes); finalize()
Crc32(bytes) == Xor32(CrcUpdate(CrcMask, bytes), CrcMask)

\* decode_be_u32: the big-endian value of four bytes.
DecodeBeU32(bytes) == U32(bytes[1] * 256 + bytes[2], bytes[3] * 256 + bytes[4])
\* u32::to_be_bytes
U32ToBeBytes(x) == <<x.hi \div 256, x.hi % 256, x.lo \div 256, x.lo % 256>>
\* `as usize` of a u32, for the values a slice index can take in the model.
AsUsize(x) == x.hi * 65536 + x.lo

\* to_be_bytes of an unsigned integer of n bytes.
RECURSIVE ToBeBytes(_, _)
ToBeBytes(x, n) ==
    IF n = 0 THEN <<>> ELSE Append(ToBeBytes(x \div 256, n - 1), x % 256)

\* &bytes[from..]: the slice from offset `from` (0-based) to the end.
SliceFrom(bytes, from) == SubSeq(bytes, from + 1, Len(bytes))
\* &bytes[from..to]
Slice(bytes, from, to) == SubSeq(bytes, from + 1, to)

PageMeta(num_values, column) == [num_values |-> num_values, column |-> column]
Page(bytes, meta) == [bytes |-> bytes, meta |-> meta]

\* The envelope as the page writer composes it: the CRC is that of the payload.
BuildPage(bitset, data_len, buf, meta) ==
    Page(ToBeBytes(Len(bitset), 4) \o ToBeBytes(data_len, 8) \o U32ToBeBytes(Crc32(buf))
           \o bitset \o buf,
         meta)

\* null_bitset_slice / data_buffer
BitsetLen(p) == DecodeBeU32(Slice(p.bytes, 0, 4))
\* A slice of the envelope out of range panics.
EnvelopeInRange(p) ==
    /\ Len(p.bytes) >= 16
    /\ BitsetLen(p).hi = 0
    /\ 16 + BitsetLen(p).lo <= Len(p.bytes)
NullBitsetSlice(p) == Slice(p.bytes, 16, 16 + AsUsize(BitsetLen(p)))
DataBuffer(p) == SliceFrom(p.bytes, 16 + AsUsize(BitsetLen(p)))

CrcRet(kind, crc, crc_calculated, p) ==
    [kind |-> kind, crc |-> crc, crc_calculated |-> crc_calculated, page |-> p]
NoPage == Page(<<>>, PageMeta(0, ""))
NoCrc == U32(0, 0)
NoCrcRet == CrcRet("none", NoCrc, NoCrc, NoPage)

\* Page::crc_validation hashing the bitmap with the payload.
CrcValidationMutHashesBitset(p) ==
    IF ~EnvelopeInRange(p) THEN CrcRet("panic", NoCrc, NoCrc, NoPage)
    ELSE LET data_crc == DecodeBeU32(Slice(p.bytes, 12, 16))
             data_crc_calculated == Crc32(SliceFrom(p.bytes, 16))
         IN IF data_crc # data_crc_calculated
            THEN CrcRet("TSMPageFileHashCheckFailed", data_crc, data_crc_calculated,
                        Page(p.bytes, p.meta))
            ELSE CrcRet("Ok", NoCrc, NoCrc, Page(p.bytes, p.meta))

\* Page::crc_validation
CrcValidation(p) ==
    IF ~EnvelopeInRange(p) THEN CrcRet("panic", NoCrc, NoCrc, NoPage)
    ELSE LET bytes == p.bytes
             meta == p.meta
             data_crc == DecodeBeU32(Slice(bytes, 12, 16))
             bitset_len == AsUsize(DecodeBeU32(Slice(p.bytes, 0, 4)))
             data_crc_calculated == Crc32(SliceFrom(bytes, 16 + bitset_len))
         IN IF data_crc # data_crc_calculated
            THEN CrcRet("TSMPageFileHashCheckFailed", data_crc, data_crc_calculated,
                        Page(bytes, meta))
            ELSE CrcRet("Ok", NoCrc, NoCrc, Page(bytes, meta))

BoundedSeqs(S, n) == UNION {[1..k -> S] : k \in 0..n}
BitsetBytes == {0, 5}
PayloadBytes == {1, 104}
FlipBytes == {0, 255}

PageInit ==
    /\ page \in {BuildPage(bs, d, buf, PageMeta(d, "field1")) :
                   bs \in BoundedSeqs(BitsetBytes, MaxBitsetLen),
                   d \in {1},
                   buf \in BoundedSeqs(PayloadBytes, MaxPayloadLen)}
    /\ flips = 0
    /\ crc_ret = NoCrcRet

PageIdle ==
    /\ page = NoPage
    /\ flips = 0
    /\ crc_ret = NoCrcRet

\* The stored bytes of a page change under it (a damaged file).
FlipByte ==
    /\ flips < MaxFlips
    /\ crc_ret = NoCrcRet
    /\ \E i \in 1..Len(page.bytes), b \in FlipBytes :
         /\ page.bytes[i] # b
         /\ page' = [page EXCEPT !.bytes[i] = b]
    /\ flips' = flips + 1
    /\ UNCHANGED crc_ret
    /\ UNCHANGED nonPageVars

\* page.crc_validation()
CrcValidate ==
    /\ crc_ret = NoCrcRet
    /\ crc_ret' = CrcValidation(page)
    /\ UNCHANGED <<page, flips>>
    /\ UNCHANGED nonPageVars

PageNext ==
    \/ FlipByte
    \/ CrcValidate

(***************************************************************************)
(* Page::to_column: the null bitmap, the codecs and the typed column.      *)
(***************************************************************************)
\* PhysicalCType: Tag, Time(_), Field(PhysicalDType)
ColumnTypes ==
    {"Tag", "Time", "Integer", "Float", "Unsigned", "Boolean", "String", "Unknown"}
SupportedTypes == ColumnTypes \ {"Tag", "Unknown"}
TableColumn(name, column_type) == [name |-> name, column_type |-> column_type]

\* The FieldVal variant each arm of to_column wraps a decoded value in.
FieldValKind(col_type) ==
    CASE col_type \in {"Time", "Integer"} -> "Integer"
      [] col_type = "Float" -> "Float"
      [] col_type = "Unsigned" -> "Unsigned"
      [] col_type = "Boolean" -> "Boolean"
      [] OTHER -> "Bytes"
FieldVal(kind, v) == [kind |-> kind, v |-> v]
Column(col_type, data) == [col_type |-> col_type, data |-> data]

\* decode_be_u64(&bytes[4..12]) as usize: every row count a page of the model
\* can consume lies below 2^24, a larger one is kept as 2^24.
DecodeBeU64(bytes) ==
    IF \A i \in 1..5 : bytes[i] = 0
    THEN bytes[6] * 65536 + bytes[7] * 256 + bytes[8]
    ELSE 16777216

\* ImmutBitSet::new_without_check(data_len, bitset_buffer)
ImmutBitSet(len, buffer) == [len |-> len, buffer |-> buffer]
\* Page::null_bitset
NullBitset(p) == ImmutBitSet(DecodeBeU64(Slice(p.bytes, 4, 12)), NullBitsetSlice(p))
\* ImmutBitSet::get: bit (i & 7) of byte (i >> 3), lowest bit first.
BitInBuffer(bitset, i) == i \div 8 < Len(bitset.buffer)
BitSetGet(bitset, i) == (bitset.buffer[(i \div 8) + 1] \div (2 ^ (i % 8))) % 2 = 1
\* The number of set bits among the first bitset.len ones.
Popcount(bitset) ==
    LET bits == IF bitset.len < 8 * Len(bitset.buffer) THEN bitset.len
                ELSE 8 * Len(bitset.buffer)
    IN Cardinality({i \in 0..(bits - 1) : BitSetGet(bitset, i)})

\* BitSet of a row sequence: bit i is set iff row i holds a value.
RECURSIVE BitSetByte(_, _, _)
BitSetByte(vals, j, k) ==
    IF k = 8 \/ 8 * j + k >= Len(vals) THEN 0
    ELSE (IF vals[8 * j + k + 1] # <<>> THEN 2 ^ k ELSE 0) + BitSetByte(vals, j, k + 1)
BitSetBuffer(vals) == [j \in 1..((Len(vals) + 7) \div 8) |-> BitSetByte(vals, j - 1, 0)]

\* The rows that hold a value, in order, unwrapped.
RECURSIVE StripNones(_)
StripNones(vals) ==
    IF vals = <<>> THEN <<>>
    ELSE (IF Head(vals) = <<>> THEN <<>> ELSE <<Head(vals)[1]>>) \o StripNones(Tail(vals))

\* The codecs: the first byte of a payload is the encoding tag.  Tag 0 stores
\* each value as it is, tag 1 stores the difference to the value before it.
Encodings == {0, 1}
get_encoding(data_buffer) == IF data_buffer = <<>> THEN 0 ELSE data_buffer[1]
RECURSIVE DeltaEncode(_, _)
DeltaEncode(prev, values) ==
    IF values = <<>> THEN <<>>
    ELSE <<(Head(values) - prev + 256) % 256>> \o DeltaEncode(Head(values), Tail(values))
RECURSIVE DeltaDecode(_, _)
DeltaDecode(prev, bytes) ==
    IF bytes = <<>> THEN <<>>
    ELSE LET v == (prev + Head(bytes)) % 256 IN <<v>> \o DeltaDecode(v, Tail(bytes))
CodecEncode(encoding, values) ==
    <<encoding>> \o (IF encoding = 1 THEN DeltaEncode(0, values) ELSE values)
Decoded(ok, target) == [ok |-> ok, target |-> target]
CodecDecode(encoding, data_buffer) ==
    IF data_buffer = <<>> THEN Decoded(TRUE, <<>>)
    ELSE CASE encoding = 0 -> Decoded(TRUE, Tail(data_buffer))
           [] encoding = 1 -> Decoded(TRUE, DeltaDecode(0, Tail(data_buffer)))
           [] OTHER -> Decoded(FALSE, <<>>)

\* The page a column of optional values is written as.
BuildColumnPage(col_type, encoding, vals) ==
    BuildPage(BitSetBuffer(vals), Len(vals), CodecEncode(encoding, StripNones(vals)),
              PageMeta(Len(vals), TableColumn("c", col_type)))

ColumnRet(kind, reason, col) == [kind |-> kind, reason |-> reason, col |-> col]
NoColumn == Column("", <<>>)
NoColumnRet == ColumnRet("none", "", NoColumn)
TsmPageError(reason) == ColumnRet("TsmPageError", reason, NoColumn)

\* The loop pushing nothing for an unset bit.
\* A loop that fails when values are left over after the last row.
RECURSIVE ToColumnLoopMutChecksSurplus(_, _, _, _, _)
ToColumnLoopMutChecksSurplus(bitset, i, target, col_type, data) ==
    IF i >= bitset.len
    THEN IF target = <<>> THEN ColumnRet("Ok", "", Column(col_type, data))
         ELSE TsmPageError("data buffer too long")
    ELSE IF ~BitInBuffer(bitset, i) THEN ColumnRet("panic", "", NoColumn)
    ELSE IF BitSetGet(bitset, i)
         THEN IF target = <<>> THEN TsmPageError("data buffer not enough")
              ELSE ToColumnLoopMutChecksSurplus(bitset, i + 1, Tail(target), col_type,
                       Append(data, Some(FieldVal(FieldValKind(col_type), Head(target)))))
         ELSE ToColumnLoopMutChecksSurplus(bitset, i + 1, target, col_type,
                                           Append(data, None))

RECURSIVE ToColumnLoopMutSkipsNull(_, _, _, _, _)
ToColumnLoopMutSkipsNull(bitset, i, target, col_type, data) ==
    IF i >= bitset.len THEN ColumnRet("Ok", "", Column(col_type, data))
    ELSE IF ~BitInBuffer(bitset, i) THEN ColumnRet("panic", "", NoColumn)
    ELSE IF BitSetGet(bitset, i)
         THEN IF target = <<>> THEN TsmPageError("data buffer not enough")
              ELSE ToColumnLoopMutSkipsNull(bitset, i + 1, Tail(target), col_type,
                       Append(data, Some(FieldVal(FieldValKind(col_type), Head(target)))))
         ELSE ToColumnLoopMutSkipsNull(bitset, i + 1, target, col_type, data)

\* The loop pushing None when the decoded values run out.
RECURSIVE ToColumnLoopMutPadsNull(_, _, _, _, _)
ToColumnLoopMutPadsNull(bitset, i, target, col_type, data) ==
    IF i >= bitset.len THEN ColumnRet("Ok", "", Column(col_type, data))
    ELSE IF ~BitInBuffer(bitset, i) THEN ColumnRet("panic", "", NoColumn)
    ELSE IF BitSetGet(bitset, i) /\ target # <<>>
         THEN ToColumnLoopMutPadsNull(bitset, i + 1, Tail(target), col_type,
                  Append(data, Some(FieldVal(FieldValKind(col_type), Head(target)))))
         ELSE ToColumnLoopMutPadsNull(bitset, i + 1, target, col_type, Append(data, None))

\* The `for i in 0..bitset.len()` loop of an arm of to_column.
RECURSIVE ToColumnLoop(_, _, _, _, _)
ToColumnLoop(bitset, i, target, col_type, data) ==
    IF i >= bitset.len THEN ColumnRet("Ok", "", Column(col_type, data))
    ELSE IF ~BitInBuffer(bitset, i) THEN ColumnRet("panic", "", NoColumn)
    ELSE IF BitSetGet(bitset, i)
         THEN IF target = <<>> THEN TsmPageError("data buffer not enough")
              ELSE ToColumnLoop(bitset, i + 1, Tail(target), col_type,
                       Append(data, Some(FieldVal(FieldValKind(col_type), Head(target)))))
         ELSE ToColumnLoop(bitset, i + 1, target, col_type, Append(data, None))

\* Page::to_column taking the codec of encoding 0 whatever the payload's tag is.
ToColumnMutIgnoresEncoding(p) ==
    LET col_type == p.meta.column.column_type
    IN IF ~EnvelopeInRange(p) THEN ColumnRet("panic", "", NoColumn)
       ELSE LET data_buffer == DataBuffer(p)
                bitset == NullBitset(p)
            IN CASE col_type = "Tag" -> TsmPageError("tag column not support now")
                 [] col_type = "Unknown" -> ColumnRet("UnsupportedDataType", "unknown", NoColumn)
                 [] OTHER ->
                      LET decoded == CodecDecode(0, data_buffer)
                      IN IF ~decoded.ok THEN ColumnRet("Decode", "", NoColumn)
                         ELSE ToColumnLoop(bitset, 0, decoded.target, col_type, <<>>)

\* Page::to_column
ToColumn(p) ==
    LET col_type == p.meta.column.column_type
    IN IF ~EnvelopeInRange(p) THEN ColumnRet("panic", "", NoColumn)
       ELSE LET data_buffer == DataBuffer(p)
                bitset == NullBitset(p)
            IN CASE col_type = "Tag" -> TsmPageError("tag column not support now")
                 [] col_type = "Unknown" -> ColumnRet("UnsupportedDataType", "unknown", NoColumn)
                 [] OTHER ->
                      LET encoding == get_encoding(data_buffer)
                          decoded == CodecDecode(encoding, data_buffer)
                      IN IF ~decoded.ok THEN ColumnRet("Decode", "", NoColumn)
                         ELSE ToColumnLoop(bitset, 0, decoded.target, col_type, <<>>)

ColumnValues == {3, 200}
OptionalValues == {None} \cup {Some(v) : v \in ColumnValues}
DamageBytes == {0, 255}

ColumnInit ==
    /\ col_vals \in BoundedSeqs(OptionalValues, MaxRows)
    /\ \E col_type \in ColumnTypes, encoding \in Encodings :
         col_page = BuildColumnPage(col_type, encoding, col_vals)
    /\ damage = 0
    /\ col_ret = NoColumnRet

ColumnIdle ==
    /\ col_page = NoPage
    /\ col_vals = <<>>
    /\ damage = 0
    /\ col_ret = NoColumnRet

\* The bytes to_column reads: the low byte of bitset_len and of the row count,
\* the bitmap and the payload (the CRC is not read; the higher bytes of the
\* two lengths are 0 in every page of the model).
BytesRead(p) == {4, 12} \cup 17..Len(p.bytes)

\* The stored bytes of the page change under it: one byte is overwritten.
OverwriteByte ==
    /\ damage < MaxDamage
    /\ col_ret = NoColumnRet
    /\ \E i \in BytesRead(col_page), b \in DamageBytes :
         /\ col_page.bytes[i] # b
         /\ col_page' = [col_page EXCEPT !.bytes[i] = b]
    /\ damage' = damage + 1
    /\ UNCHANGED <<col_vals, col_ret>>
    /\ UNCHANGED nonColumnVars

\* The stored bytes end one byte early.
TruncatePayload ==
    /\ damage < MaxDamage
    /\ col_ret = NoColumnRet
    /\ Len(col_page.bytes) > 0
    /\ col_page' = [col_page EXCEPT !.bytes = SubSeq(@, 1, Len(@) - 1)]
    /\ damage' = damage + 1
    /\ UNCHANGED <<col_vals, col_ret>>
    /\ UNCHANGED nonColumnVars

\* The stored bytes carry one byte more than the page was built with.
ExtendPayload ==
    /\ damage < MaxDamage
    /\ col_ret = NoColumnRet
    /\ \E b \in ColumnValues : col_page' = [col_page EXCEPT !.bytes = Append(@, b)]
    /\ damage' = damage + 1
    /\ UNCHANGED <<col_vals, col_ret>>
    /\ UNCHANGED nonColumnVars

\* page.to_column()
ToColumnCall ==
    /\ col_ret = NoColumnRet
    /\ col_ret' = ToColumn(col_page)
    /\ UNCHANGED <<col_page, col_vals, damage>>
    /\ UNCHANGED nonColumnVars

ColumnNext ==
    \/ OverwriteByte
    \/ TruncatePayload
    \/ ExtendPayload
    \/ ToColumnCall

(***************************************************************************)
(* ColumnGroup: the pages of one row group.                                *)
(***************************************************************************)
\* TimeRange::none(): the bounds are i64::MAX and i64::MIN, of which the
\* model needs only that they lie outside every timestamp it uses.
I64Max == 2147483647
I64Min == -2147483647
TimeRange(min_ts, max_ts) == [min_ts |-> min_ts, max_ts |-> max_ts]
TimeRangeNone == TimeRange(I64Max, I64Min)
Min(a, b) == IF a < b THEN a ELSE b
Max(a, b) == IF a > b THEN a ELSE b
\* TimeRange::merge
TimeRangeMerge(a, b) == TimeRange(Min(a.min_ts, b.min_ts), Max(a.max_ts, b.max_ts))

PageWriteSpec(offset, size, meta) == [offset |-> offset, size |-> size, meta |-> meta]

\* ColumnGroup::new
ColumnGroupNew(id) ==
    [column_group_id |-> id, pages_offset |-> 0, size |-> 0,
     time_range |-> TimeRangeNone, pages |-> <<>>]
\* ColumnGroup::time_range_merge
ColumnGroupTimeRangeMerge(g, time_range) ==
    [g EXCEPT !.time_range = TimeRangeMerge(@, time_range)]

Pushed(group, panic) == [group |-> group, panic |-> panic]
\* ColumnGroup::push; debug says whether debug_assert_eq! is compiled in.
ColumnGroupPush(g, p, debug) ==
    LET g1 == IF g.pages_offset = 0 THEN [g EXCEPT !.pages_offset = p.offset] ELSE g
    IN IF debug /\ g1.size # 0 /\ g1.pages_offset + g1.size # p.offset
       THEN Pushed(g1, TRUE)
       ELSE Pushed([g1 EXCEPT !.size = @ + p.size, !.pages = Append(@, p)], FALSE)

\* ColumnGroup::row_len returning the num_values of the last page.
RowLenMutLast(g) ==
    IF g.pages = <<>> THEN 0 ELSE g.pages[Len(g.pages)].meta.num_values
\* ColumnGroup::row_len
RowLen(g) == IF g.pages = <<>> THEN 0 ELSE Head(g.pages).meta.num_values

PageOffsets == {0, 10, 20, 30}
PageSizes == {10, 20}
PageMetas ==
    {PageMeta(1, TableColumn("time", "Time")),
     PageMeta(1, TableColumn("c", "Integer")),
     PageMeta(2, TableColumn("c", "Integer"))}

GroupInit ==
    /\ column_group = ColumnGroupNew(0)
    /\ debug_assertions \in BOOLEAN
    /\ panicked = FALSE

GroupIdle ==
    /\ column_group = ColumnGroupNew(0)
    /\ debug_assertions = FALSE
    /\ panicked = TRUE

\* column_group.push(page)
PushPage ==
    /\ ~panicked
    /\ Len(column_group.pages) < MaxPages
    /\ \E offset \in PageOffsets, size \in PageSizes, meta \in PageMetas :
         LET pushed == ColumnGroupPush(column_group, PageWriteSpec(offset, size, meta),
                                       debug_assertions)
         IN /\ column_group' = pushed.group
            /\ panicked' = pushed.panic
    /\ UNCHANGED debug_assertions
    /\ UNCHANGED nonGroupVars

GroupNext == PushPage

(***************************************************************************)
(* Chunk: the column groups of one series.                                 *)
(***************************************************************************)
\* BTreeMap<ColumnGroupID, Arc<ColumnGroup>>: a set of groups, one per id.
Chunk(time_range, next_column_group_id, column_groups) ==
    [time_range |-> time_range, next_column_group_id |-> next_column_group_id,
     column_groups |-> column_groups]
\* Chunk::new
ChunkNew == Chunk(TimeRangeNone, 0, {})
\* self.column_groups.get(&id).is_some()
HasColumnGroup(c, id) == \E g \in c.column_groups : g.column_group_id = id

ChunkRet(kind, reason) == [kind |-> kind, reason |-> reason]
TsmColumnGroupError(reason) == ChunkRet("TsmColumnGroupError", reason)
ChunkPushed(c, r) == [chunk |-> c, ret |-> r]

\* Chunk::push that takes a second group with an id the chunk holds.
ChunkPushMutKeepsDuplicate(c, column_group_) ==
    IF c.time_range.max_ts > column_group_.time_range.min_ts
    THEN ChunkPushed(c, TsmColumnGroupError("invalid column group time range"))
    ELSE ChunkPushed([c EXCEPT !.time_range = TimeRangeMerge(@, column_group_.time_range),
                               !.column_groups = @ \cup {column_group_}],
                     ChunkRet("Ok", ""))

\* Chunk::push accepting a group that starts before the chunk's max_ts.
ChunkPushMutNoTimeCheck(c, column_group_) ==
    LET c1 == [c EXCEPT !.time_range = TimeRangeMerge(@, column_group_.time_range)]
    IN IF HasColumnGroup(c1, column_group_.column_group_id)
       THEN ChunkPushed(c1, TsmColumnGroupError("duplicate column group id"))
       ELSE ChunkPushed([c1 EXCEPT !.column_groups = @ \cup {column_group_}],
                        ChunkRet("Ok", ""))

\* Chunk::push
ChunkPush(c, column_group_) ==
    IF c.time_range.max_ts > column_group_.time_range.min_ts
    THEN ChunkPushed(c, TsmColumnGroupError("invalid column group time range"))
    ELSE LET c1 == [c EXCEPT !.time_range = TimeRangeMerge(@, column_group_.time_range)]
         IN IF HasColumnGroup(c1, column_group_.column_group_id)
            THEN ChunkPushed(c1, TsmColumnGroupError("duplicate column group id"))
            ELSE ChunkPushed([c1 EXCEPT !.column_groups = @ \cup {column_group_}],
                             ChunkRet("Ok", ""))

Timestamps == {0, 10, 20}
TimeRanges ==
    {TimeRangeNone} \cup
    {TimeRange(r[1], r[2]) : r \in {q \in Timestamps \X Timestamps : q[1] <= q[2]}}
\* The groups a caller can hand to push: any id, any range.
ColumnGroups ==
    {ColumnGroupTimeRangeMerge(ColumnGroupNew(id), tr) :
       id \in 0..(MaxCgId - 1), tr \in TimeRanges}

ChunkCall(op, column_group_, before, ret_) ==
    [op |-> op, column_group |-> column_group_, before |-> before, ret |-> ret_]
NoChunkCall == ChunkCall("none", ColumnGroupNew(0), ChunkNew, ChunkRet("none", ""))

ChunkInit ==
    /\ chunk = ChunkNew
    /\ chunk_call = NoChunkCall
    /\ push_order = <<>>
    /\ calls_made = 0

ChunkIdle ==
    /\ chunk = ChunkNew
    /\ chunk_call = NoChunkCall
    /\ push_order = <<>>
    /\ calls_made = MaxCalls

\* chunk.next_column_group_id()
NextColumnGroupId ==
    /\ calls_made < MaxCalls
    /\ chunk.next_column_group_id < MaxCgId
    /\ chunk' = [chunk EXCEPT !.next_column_group_id = @ + 1]
    /\ chunk_call' = ChunkCall("next_column_group_id", ColumnGroupNew(0), chunk,
                               ChunkRet("Id", chunk.next_column_group_id))
    /\ calls_made' = calls_made + 1
    /\ UNCHANGED push_order
    /\ UNCHANGED nonChunkVars

\* chunk.push(column_group)
PushColumnGroup ==
    /\ calls_made < MaxCalls
    /\ \E g \in ColumnGroups :
         LET pushed == ChunkPush(chunk, g)
         IN /\ chunk' = pushed.chunk
            /\ chunk_call' = ChunkCall("push", g, chunk, pushed.ret)
            /\ push_order' = IF pushed.ret.kind = "Ok" THEN Append(push_order, g)
                             ELSE push_order
    /\ calls_made' = calls_made + 1
    /\ UNCHANGED nonChunkVars

ChunkNext ==
    \/ NextColumnGroupId
    \/ PushColumnGroup

(***************************************************************************)
(* Footer: the file meta, its binary form and the series bloom filter.     *)
(***************************************************************************)
\* Fixed-width little-endian integers, as bincode writes them.
RECURSIVE LeBytes(_, _)
LeBytes(x, n) == IF n = 0 THEN <<>> ELSE <<x % 256>> \o LeBytes(x \div 256, n - 1)
RECURSIVE FromLe(_)
FromLe(bytes) == IF bytes = <<>> THEN 0 ELSE Head(bytes) + 256 * FromLe(Tail(bytes))
Complement(bytes) == [i \in 1..Len(bytes) |-> 255 - bytes[i]]
\* An i64 in two's complement.
I64Le(x) == IF x >= 0 THEN LeBytes(x, 8) ELSE Complement(LeBytes(-x - 1, 8))
I64FromLe(bytes) ==
    IF bytes[8] >= 128 THEN -FromLe(Complement(bytes)) - 1 ELSE FromLe(bytes)
U64Le(x) == LeBytes(x, 8)

\* BloomFilter::with_data: the bytes, and the mask of a bit position.
BloomFilter(b) == [b |-> b, mask |-> 8 * Len(b) - 1]
\* The hash of a key, and the bit of the filter it selects.
BloomHash(data) == (data[1] + 3 * data[2] + 5 * data[3] + 7 * data[4])
BloomLocation(bloom_filter, data) == BloomHash(data) % (bloom_filter.mask + 1)
\* BloomFilter::insert
BloomInsert(bloom_filter, data) ==
    LET loc == BloomLocation(bloom_filter, data)
        byte == bloom_filter.b[(loc \div 8) + 1]
    IN IF (byte \div (2 ^ (loc % 8))) % 2 = 1 THEN bloom_filter
       ELSE [bloom_filter EXCEPT !.b[(loc \div 8) + 1] = byte + 2 ^ (loc % 8)]
\* BloomFilter::maybe_contains
MaybeContains(bloom_filter, data) ==
    LET loc == BloomLocation(bloom_filter, data)
    IN (bloom_filter.b[(loc \div 8) + 1] \div (2 ^ (loc % 8))) % 2 = 1

\* SeriesId (u32) as_bytes: the four bytes of the id, lowest first.
SeriesIdAsBytes(series_id) == LeBytes(series_id, 4)

\* TableMeta::new
TableMeta(chunk_group_offset, chunk_group_size) ==
    [chunk_group_offset |-> chunk_group_offset, chunk_group_size |-> chunk_group_size]
\* SeriesMeta::new
SeriesMeta(bloom_filter, chunk_offset, chunk_size) ==
    [bloom_filter |-> BloomFilter(bloom_filter), chunk_offset |-> chunk_offset,
     chunk_size |-> chunk_size]
\* Footer::new
Footer(version, time_range, table, series) ==
    [version |-> version, time_range |-> time_range, table |-> table, series |-> series]

\* Footer::maybe_series_exist asking for the bytes of the id highest first.
MaybeSeriesExistMutBigEndian(f, series_id) ==
    MaybeContains(f.series.bloom_filter, ToBeBytes(series_id, 4))
\* Footer::maybe_series_exist
MaybeSeriesExist(f, series_id) ==
    MaybeContains(f.series.bloom_filter, SeriesIdAsBytes(series_id))

\* The fields in the order the structs declare them, a Vec<u8> behind its length.
TimeRangeSerialize(tr) == I64Le(tr.min_ts) \o I64Le(tr.max_ts)
TableMetaSerialize(t) == U64Le(t.chunk_group_offset) \o U64Le(t.chunk_group_size)
BloomFilterSerialize(bf) == U64Le(Len(bf.b)) \o bf.b \o U64Le(bf.mask)
SeriesMetaSerialize(m) ==
    BloomFilterSerialize(m.bloom_filter) \o U64Le(m.chunk_offset) \o U64Le(m.chunk_size)
\* Footer::serialize writing the two fields of the table meta in the other order.
FooterSerializeMutSwapsTable(f) ==
    <<f.version>> \o TimeRangeSerialize(f.time_range)
      \o U64Le(f.table.chunk_group_size) \o U64Le(f.table.chunk_group_offset)
      \o SeriesMetaSerialize(f.series)
\* Footer::serialize
FooterSerialize(f) ==
    <<f.version>> \o TimeRangeSerialize(f.time_range) \o TableMetaSerialize(f.table)
      \o SeriesMetaSerialize(f.series)

FooterRead(kind, f) == [kind |-> kind, footer |-> f]
NoFooter == Footer(0, TimeRangeNone, TableMeta(0, 0), SeriesMeta(<<>>, 0, 0))
NoFooterRead == FooterRead("none", NoFooter)
\* Footer::deserialize
FooterDeserialize(bytes) ==
    IF Len(bytes) < 41 THEN FooterRead("Deserialize", NoFooter)
    ELSE LET len == FromLe(Slice(bytes, 33, 41))
         IN IF Len(bytes) < 41 + len + 24 THEN FooterRead("Deserialize", NoFooter)
            ELSE FooterRead("Ok",
                   [version |-> bytes[1],
                    time_range |-> TimeRange(I64FromLe(Slice(bytes, 1, 9)),
                                             I64FromLe(Slice(bytes, 9, 17))),
                    table |-> TableMeta(FromLe(Slice(bytes, 17, 25)),
                                        FromLe(Slice(bytes, 25, 33))),
                    series |->
                      [bloom_filter |->
                         [b |-> Slice(bytes, 41, 41 + len),
                          mask |-> FromLe(Slice(bytes, 41 + len, 49 + len))],
                       chunk_offset |-> FromLe(Slice(bytes, 49 + len, 57 + len)),
                       chunk_size |-> FromLe(Slice(bytes, 57 + len, 65 + len))]])

SeriesIds == {1, 2, 9, 256}
FooterVersions == {0, 1}
FooterTimeRanges == {TimeRange(0, 100), TimeRange(-300, -1), TimeRangeNone}
TableMetas == {TableMeta(100, 100), TableMeta(70000, 0)}
ZeroBytes(n) == [i \in 1..n |-> 0]

FooterInit ==
    /\ footer \in {Footer(version, tr, table, SeriesMeta(ZeroBytes(n), 100, 300)) :
                     version \in FooterVersions, tr \in FooterTimeRanges,
                     table \in TableMetas, n \in 1..MaxBloomBytes}
    /\ inserted = {}
    /\ footer_bytes = None
    /\ footer_read = NoFooterRead

FooterIdle ==
    /\ footer = NoFooter
    /\ inserted = {}
    /\ footer_bytes = None
    /\ footer_read = NoFooterRead

\* The file writer inserts a series id into the bloom filter of the footer.
InsertSeries ==
    /\ footer_bytes = None
    /\ \E series_id \in SeriesIds \ inserted :
         /\ footer' = [footer EXCEPT !.series.bloom_filter =
                         BloomInsert(@, SeriesIdAsBytes(series_id))]
         /\ inserted' = inserted \cup {series_id}
    /\ UNCHANGED <<footer_bytes, footer_read>>
    /\ UNCHANGED nonFooterVars

\* footer.serialize()
SerializeFooter ==
    /\ footer_bytes = None
    /\ footer_bytes' = Some(FooterSerialize(footer))
    /\ UNCHANGED <<footer, inserted, footer_read>>
    /\ UNCHANGED nonFooterVars

\* Footer::deserialize(&bytes)
DeserializeFooter ==
    /\ footer_bytes # None
    /\ footer_read = NoFooterRead
    /\ footer_read' = FooterDeserialize(footer_bytes[1])
    /\ UNCHANGED <<footer, inserted, footer_bytes>>
    /\ UNCHANGED nonFooterVars

FooterNext ==
    \/ InsertSeries
    \/ SerializeFooter
    \/ DeserializeFooter

(***************************************************************************)
(* ParallelMergeAdapter: the merged stream of the child readers, limited.  *)
(***************************************************************************)
\* What a stream yields: a batch of rows read from a child, an error, the end.
Batch(rows, child) == [kind |-> "batch", rows |-> rows, child |-> child]
StreamError(child) == [kind |-> "error", rows |-> 0, child |-> child]
EndOfStream == [kind |-> "end", rows |-> 0, child |-> 0]
\* Poll::Pending: the merged stream has no item ready.
Pending == [kind |-> "pending", rows |-> 0, child |-> 0]

Limited(remain_, out) == [remain |-> remain_, out |-> out]
\* limit_record_batch: without a limit the batch passes; with no row left
\* nothing does; otherwise the batch passes, cut to the rows that are left.
LimitRecordBatch(remain_, batch) ==
    IF remain_ = None THEN Limited(remain_, Some(batch))
    ELSE IF remain_[1] = 0 THEN Limited(remain_, None)
    ELSE IF batch.rows <= remain_[1]
         THEN Limited(Some(remain_[1] - batch.rows), Some(batch))
         ELSE Limited(Some(0), Some([batch EXCEPT !.rows = remain_[1]]))

\* poll_next handing every batch on as it is.
PollNextMutNoLimit(remain_, item) == Limited(remain_, item)
\* SchemableParallelMergeStream::poll_next, for what the merged stream is ready
\* with: Some(item), or None at its end.
PollNext(remain_, item) ==
    IF item # None /\ item[1].kind = "batch" THEN LimitRecordBatch(remain_, item[1])
    ELSE Limited(remain_, item)
\* The item of the output stream: None is its end.
Emit(out) == IF out = None THEN EndOfStream ELSE out[1]

BatchReader(process_ok, items) == [process_ok |-> process_ok, items |-> items]
\* The child readers of the model: the row counts of their batches, 0 for an
\* item that is an error.
ChildItems == {<<>>, <<2>>, <<1, 2>>, <<2, 0>>, <<3, 1>>}
ChildReaders ==
    {BatchReader(TRUE, items) : items \in ChildItems} \cup {BatchReader(FALSE, <<>>)}
Limits == {None, Some(0), Some(1), Some(3), Some(4)}

MergeInit ==
    /\ inputs \in BoundedSeqs(ChildReaders, MaxChildren)
    /\ limit \in Limits
    /\ merge_stream = "none"
    /\ remain = None
    /\ emitted = <<>>

MergeIdle ==
    /\ inputs = <<>>
    /\ limit = None
    /\ merge_stream = "off"
    /\ remain = None
    /\ emitted = <<>>

\* ParallelMergeAdapter::try_new and process()
Process ==
    /\ merge_stream = "none"
    /\ merge_stream' =
         IF inputs = <<>> THEN "CommonError"
         ELSE IF \E i \in 1..Len(inputs) : ~inputs[i].process_ok THEN "ProcessError"
         ELSE "Ok"
    /\ remain' = limit
    /\ UNCHANGED <<inputs, limit, emitted>>
    /\ UNCHANGED nonMergeVars

\* poll_next when the merged stream is ready with the next item of a child.
PollNextItem ==
    /\ merge_stream = "Ok"
    /\ \E i \in 1..Len(inputs) :
         /\ inputs[i].items # <<>>
         /\ LET rows == Head(inputs[i].items)
                item == IF rows = 0 THEN StreamError(i) ELSE Batch(rows, i)
                polled == PollNext(remain, Some(item))
            IN /\ remain' = polled.remain
               /\ emitted' = Append(emitted, Emit(polled.out))
         /\ inputs' = [inputs EXCEPT ![i].items = Tail(@)]
    /\ UNCHANGED <<limit, merge_stream>>
    /\ UNCHANGED nonMergeVars

\* poll_next when every child has ended.
PollNextEnd ==
    /\ merge_stream = "Ok"
    /\ \A i \in 1..Len(inputs) : inputs[i].items = <<>>
    /\ IF emitted = <<>> THEN TRUE ELSE emitted[Len(emitted)] # EndOfStream
    /\ LET polled == PollNext(remain, None)
       IN /\ remain' = polled.remain
          /\ emitted' = Append(emitted, Emit(polled.out))
    /\ UNCHANGED <<inputs, limit, merge_stream>>
    /\ UNCHANGED nonMergeVars

\* poll_next when no item of a child has arrived yet: ready! returns Pending.
\* Pending polls that follow each other are recorded once.
PollNextPending ==
    /\ merge_stream = "Ok"
    /\ \E i \in 1..Len(inputs) : inputs[i].items # <<>>
    /\ IF emitted = <<>> THEN TRUE ELSE emitted[Len(emitted)] # Pending
    /\ emitted' = Append(emitted, Pending)
    /\ UNCHANGED <<inputs, limit, merge_stream, remain>>
    /\ UNCHANGED nonMergeVars

MergeNext ==
    \/ Process
    \/ PollNextItem
    \/ PollNextEnd
    \/ PollNextPending

(***************************************************************************)
(* ColumnCursorStream: the partitions of a sorted read, each polled on its *)
(* own (tskv/src/reader/partitioned_stream.rs).                            *)
(***************************************************************************)
\* What a record batch stream yields: a batch of `rows` rows or an error;
\* `id` is the position of the item in its stream. "end" and "pending" are
\* the two other outcomes of a poll.
StreamItem(kind, rows, id) == [kind |-> kind, rows |-> rows, id |-> id]
StreamEnd == StreamItem("end", 0, 0)
StreamPending == StreamItem("pending", 0, 0)

\* A stream written as the row counts of its batches, -1 for an error and -2
\* for a None that the stream yields before it has handed out all it has (a
\* stream need not go on yielding None once it has; the None after the last
\* item is not written).
ItemsOf(codes) ==
    [k \in 1..Len(codes) |->
        IF codes[k] = -2 THEN StreamItem("end", 0, k)
        ELSE IF codes[k] < 0 THEN StreamItem("error", 0, k)
        ELSE StreamItem("batch", codes[k], k)]
PartitionItems == {<<>>, <<0>>, <<1, 0, 0, 2>>, <<-1, 0, 1>>, <<-2, 1>>}

\* A stream and the index its schema gives the named column, if it has it.
RecordBatchStream(column, codes) == [column |-> column, items |-> ItemsOf(codes)]
RecordBatchStreams ==
    {RecordBatchStream(None, <<2>>), RecordBatchStream(Some(0), <<0, 2>>)}
        \cup {RecordBatchStream(Some(1), c) : c \in PartitionItems}

\* StreamExt::fuse: once the stream has ended it is not polled again.
Fuse(s) == [items |-> s.items, done |-> FALSE]

CursorStream(kind, streams, idxs) ==
    [kind |-> kind, streams |-> streams, time_column_idx |-> idxs]
NoCursorStream(kind) == CursorStream(kind, <<>>, <<>>)

\* ColumnCursorStream::new
ColumnCursorStreamNew(streams) ==
    IF \E i \in 1..Len(streams) : streams[i].column = None
    THEN NoCursorStream("SchemaError")
    ELSE CursorStream("Ok",
                      [i \in 1..Len(streams) |-> Fuse(streams[i])],
                      [i \in 1..Len(streams) |-> streams[i].column[1]])

Polling(stream, r) == [stream |-> stream, r |-> r]

\* A poll_next that hands on empty batches as well.
FusedStreamsPollNextMutNoSkip(stream, ready, end_ready) ==
    IF stream.done THEN Polling(stream, StreamEnd)
    ELSE IF stream.items = <<>>
    THEN IF end_ready THEN Polling([stream EXCEPT !.done = TRUE], StreamEnd)
         ELSE Polling(stream, StreamPending)
    ELSE IF ready = 0 THEN Polling(stream, StreamPending)
    ELSE IF Head(stream.items).kind = "end"
    THEN Polling([stream EXCEPT !.items = Tail(@), !.done = TRUE], StreamEnd)
    ELSE Polling([stream EXCEPT !.items = Tail(@)], Head(stream.items))

\* A poll_next on streams that are not fused: a stream that has yielded None
\* is polled again.
RECURSIVE FusedStreamsPollNextMutNoFuse(_, _, _)
FusedStreamsPollNextMutNoFuse(stream, ready, end_ready) ==
    IF stream.items = <<>>
    THEN IF end_ready THEN Polling([stream EXCEPT !.done = TRUE], StreamEnd)
         ELSE Polling(stream, StreamPending)
    ELSE IF ready = 0 THEN Polling(stream, StreamPending)
    ELSE LET head == Head(stream.items)
             rest == [stream EXCEPT !.items = Tail(@)]
         IN  IF head.kind = "end" THEN Polling([rest EXCEPT !.done = TRUE], StreamEnd)
             ELSE IF head.kind = "batch" /\ head.rows = 0
             THEN FusedStreamsPollNextMutNoFuse(rest, ready - 1, end_ready)
             ELSE Polling(rest, head)

\* FusedStreams::poll_next on one fused stream. Of the items the stream
\* still holds, `ready` can be had now, and `end_ready` says whether its end
\* can; what is not ready makes the poll pending. A fused stream that has
\* yielded None is done: it answers None without polling the stream inside.
RECURSIVE FusedStreamsPollNext(_, _, _)
FusedStreamsPollNext(stream, ready, end_ready) ==
    IF stream.done THEN Polling(stream, StreamEnd)
    ELSE IF stream.items = <<>>
    THEN IF end_ready THEN Polling([stream EXCEPT !.done = TRUE], StreamEnd)
         ELSE Polling(stream, StreamPending)
    ELSE IF ready = 0 THEN Polling(stream, StreamPending)
    ELSE LET head == Head(stream.items)
             rest == [stream EXCEPT !.items = Tail(@)]
         IN  IF head.kind = "end" THEN Polling([rest EXCEPT !.done = TRUE], StreamEnd)
             ELSE IF head.kind = "batch" /\ head.rows = 0
             THEN FusedStreamsPollNext(rest, ready - 1, end_ready)
             ELSE Polling(rest, head)

\* ColumnCursorStream::convert_batch: a cursor over column idx of the batch.
ConvertBatch(batch, idx) == [column |-> idx, rows |-> batch.rows]

Polled(item, cursor) == [item |-> item, cursor |-> cursor]

\* ColumnCursorStream::partitions
Partitions(cs) == Len(cs.streams)

\* A poll_next(stream_idx) that takes the next item of every partition.
ColumnCursorStreamPollNextMutAllPartitions(cs, stream_idx, ready, end_ready) ==
    LET p == FusedStreamsPollNext(cs.streams[stream_idx], ready, end_ready)
    IN  [cs |-> [cs EXCEPT !.streams =
                    [j \in 1..Len(cs.streams) |->
                        IF j = stream_idx THEN p.stream
                        ELSE IF cs.streams[j].items = <<>> THEN cs.streams[j]
                        ELSE [cs.streams[j] EXCEPT !.items = Tail(@)]]],
         out |-> IF p.r.kind = "batch"
                 THEN Polled(p.r, Some(ConvertBatch(p.r, cs.time_column_idx[stream_idx])))
                 ELSE Polled(p.r, None)]

\* ColumnCursorStream::poll_next(stream_idx)
ColumnCursorStreamPollNext(cs, stream_idx, ready, end_ready) ==
    LET p == FusedStreamsPollNext(cs.streams[stream_idx], ready, end_ready)
    IN  [cs |-> [cs EXCEPT !.streams[stream_idx] = p.stream],
         out |-> IF p.r.kind = "batch"
                 THEN Polled(p.r, Some(ConvertBatch(p.r, cs.time_column_idx[stream_idx])))
                 ELSE Polled(p.r, None)]

CursorInit ==
    /\ cursor_src \in BoundedSeqs(RecordBatchStreams, MaxPartitions)
    /\ cursor_stream = NoCursorStream("none")
    /\ cursor_polled = <<>>

CursorIdle ==
    /\ cursor_src = <<>>
    /\ cursor_stream = NoCursorStream("off")
    /\ cursor_polled = <<>>

NewColumnCursorStream ==
    /\ cursor_stream.kind = "none"
    /\ cursor_stream' = ColumnCursorStreamNew(cursor_src)
    /\ cursor_polled' = [i \in 1..Len(cursor_stream'.streams) |-> <<>>]
    /\ UNCHANGED cursor_src
    /\ UNCHANGED nonCursorVars

RECURSIVE PollsMade(_)
PollsMade(logs) == IF logs = <<>> THEN 0 ELSE Len(Head(logs)) + PollsMade(Tail(logs))

CursorPollNext ==
    /\ cursor_stream.kind = "Ok"
    /\ PollsMade(cursor_polled) < MaxPolls
    /\ \E stream_idx \in 1..Len(cursor_stream.streams) :
         /\ \E ready \in 0..Len(cursor_stream.streams[stream_idx].items),
               end_ready \in BOOLEAN :
              LET p == ColumnCursorStreamPollNext(cursor_stream, stream_idx,
                                                  ready, end_ready)
              IN  /\ cursor_stream' = p.cs
                  /\ cursor_polled' = [cursor_polled EXCEPT ![stream_idx] = Append(@, p.out)]
    /\ UNCHANGED cursor_src
    /\ UNCHANGED nonCursorVars

CursorNext ==
    \/ NewColumnCursorStream
    \/ CursorPollNext

(***************************************************************************)
(* TskvService::download_file: the task that reads the file and the        *)
(* channel that carries its frames to the response stream                  *)
(* (main/src/rpc/tskv.rs). BufferLen stands for the 8 * 1024 bytes of the  *)
(* buffer and ChannelCapacity for the 1024 frames of the channel.          *)
(***************************************************************************)
FileOfLen(n) == [k \in 1..n |-> (7 * k) % 256]
Files == {None} \cup {Some(FileOfLen(n)) : n \in 0..MaxFileLen}

BatchBytesResponse(code, data) == [code |-> code, data |-> data]

\* vec![0; 8 * 1024]
NewBuffer == [k \in 1..BufferLen |-> 0]

ReadRet(kind, len) == [kind |-> kind, len |-> len]
NoReadRet == ReadRet("none", 0)
\* What file.read(&mut buffer) can return with `left` bytes of the file
\* ahead: an error, 0 at the end of the file, or some of the bytes, as many
\* as the buffer takes at most.
ReadAnswers(left) ==
    {ReadRet("Err", 0)}
        \cup {ReadRet("Ok", len) :
                len \in IF left = 0 THEN {0} ELSE 1..Min(BufferLen, left)}

\* The buffer after a read of len bytes at pos.
ReadInto(buf, bytes, pos, len) ==
    [k \in 1..Len(buf) |-> IF k <= len THEN bytes[pos + k] ELSE buf[k]]

\* A frame that carries the whole buffer.
FrameMutWholeBuffer(buf, len) == BatchBytesResponse(SUCCESS_RESPONSE_CODE, buf)

\* BatchBytesResponse { code: SUCCESS_RESPONSE_CODE, data: buffer[0..len].to_vec() }
Frame(buf, len) ==
    BatchBytesResponse(SUCCESS_RESPONSE_CODE, SubSeq(buf, 1, len))

DownloadInit ==
    /\ file \in Files
    /\ task = "none"
    /\ file_pos = 0
    /\ file_buffer = <<>>
    /\ read_ret = NoReadRet
    /\ channel = <<>>
    /\ recv = "none"
    /\ received = <<>>

DownloadIdle ==
    /\ file = None
    /\ task = "off"
    /\ file_pos = 0
    /\ file_buffer = <<>>
    /\ read_ret = NoReadRet
    /\ channel = <<>>
    /\ recv = "none"
    /\ received = <<>>

\* download_file: makes the channel, spawns the task and answers with the
\* receiving half as the response stream.
DownloadFile ==
    /\ task = "none"
    /\ task' = "open"
    /\ recv' = "open"
    /\ channel' = <<>>
    /\ UNCHANGED <<file, file_pos, file_buffer, read_ret, received>>
    /\ UNCHANGED nonDownloadVars

\* tokio::fs::File::open(filename).await
OpenFile ==
    /\ task = "open"
    /\ IF file = None
       THEN task' = "done" /\ UNCHANGED file_buffer
       ELSE task' = "read" /\ file_buffer' = NewBuffer
    /\ UNCHANGED <<file, file_pos, read_ret, channel, recv, received>>
    /\ UNCHANGED nonDownloadVars

\* while let Ok(len) = file.read(&mut buffer).await { if len == 0 { break; } ..
ReadFile ==
    /\ task = "read"
    /\ \E r \in ReadAnswers(Len(file[1]) - file_pos) :
         /\ read_ret' = r
         /\ IF r.kind = "Ok" /\ r.len # 0
            THEN /\ file_buffer' = ReadInto(file_buffer, file[1], file_pos, r.len)
                 /\ file_pos' = file_pos + r.len
                 /\ task' = "send"
            ELSE /\ task' = "done"
                 /\ UNCHANGED <<file_buffer, file_pos>>
    /\ UNCHANGED <<file, channel, recv, received>>
    /\ UNCHANGED nonDownloadVars

\* let _ = send.send(Ok(frame)).await: waits while the channel is full, and
\* fails, unnoticed, once the receiving half is gone.
SendFrame ==
    /\ task = "send"
    /\ IF recv = "dropped"
       THEN UNCHANGED channel
       ELSE /\ Len(channel) < ChannelCapacity
            /\ channel' = Append(channel, Frame(file_buffer, read_ret.len))
    /\ task' = "read"
    /\ UNCHANGED <<file, file_pos, file_buffer, read_ret, recv, received>>
    /\ UNCHANGED nonDownloadVars

\* The response stream yields a frame.
RecvFrame ==
    /\ recv = "open"
    /\ channel # <<>>
    /\ received' = Append(received, Head(channel))
    /\ channel' = Tail(channel)
    /\ UNCHANGED <<file, task, file_pos, file_buffer, read_ret, recv>>
    /\ UNCHANGED nonDownloadVars

\* The response stream ends: the channel is empty and the task, with the
\* sending half, is gone.
RecvClosed ==
    /\ recv = "open"
    /\ channel = <<>>
    /\ task = "done"
    /\ recv' = "closed"
    /\ UNCHANGED <<file, task, file_pos, file_buffer, read_ret, channel, received>>
    /\ UNCHANGED nonDownloadVars

\* The client goes away: the response stream is dropped with what it holds.
DropReceiver ==
    /\ recv = "open"
    /\ recv' = "dropped"
    /\ channel' = <<>>
    /\ UNCHANGED <<file, task, file_pos, file_buffer, read_ret, received>>
    /\ UNCHANGED nonDownloadVars

DownloadNext ==
    \/ DownloadFile
    \/ OpenFile
    \/ ReadFile
    \/ SendFrame
    \/ RecvFrame
    \/ RecvClosed
    \/ DropReceiver

\* The runtime keeps running the spawned task, and a response stream that
\* is not dropped keeps taking the frames that are there.
DownloadFairness ==
    /\ WF_vars(OpenFile \/ ReadFile \/ SendFrame)
    /\ WF_vars(RecvFrame)

(***************************************************************************)
(* TskvService::exec_raft_write_command (main/src/rpc/tskv.rs).            *)
(***************************************************************************)
\* TskvServiceImpl::status_response
StatusResponse(code, data) == Rpc("response", "", code, data)
\* tonic::Status::new(code, message)
TonicStatus(code, message) == Rpc("status", code, 0, message)
\* format!("Not Found tenant({}) meta", ..) and format!("Not Found Replica Set({})", ..)
Format(text, arg) == <<text, arg>>

\* err.to_string()
ErrToString(err) == err.msg

\* The answer to the request once exec_write_replica_points has returned,
\* with the two codes exchanged.
WriteCommandResponseMutSwapsCodes(r) ==
    IF r # Ok THEN StatusResponse(SUCCESS_RESPONSE_CODE, ErrToString(r))
    ELSE StatusResponse(FAILED_RESPONSE_CODE, "")

\* The answer to the request once exec_write_replica_points has returned r.
WriteCommandResponse(r) ==
    IF r # Ok THEN StatusResponse(FAILED_RESPONSE_CODE, ErrToString(r))
    ELSE StatusResponse(SUCCESS_RESPONSE_CODE, "")

SvcTenants == {"cnosdb", "t1"}
SvcReplicaIds == {1, 2}
\* A catalog: a tenant is unknown (None) or has some replication sets.
Catalogs == [SvcTenants -> {None} \cup {Some(s) : s \in SUBSET SvcReplicaIds}]
RaftWriteCommands == [tenant : SvcTenants \cup {"t2"}, replica_id : SvcReplicaIds \cup {3}]
WriteAnswers == {Ok, RaftWriteError("raft write failed"), FailoverNode(2, "connect failed")}

\* self.coord.tenant_meta(tenant).await
SvcTenantMeta(m, tenant) == IF tenant \in DOMAIN m THEN m[tenant] ELSE None
\* client.get_replication_set(replica_id)
GetReplicationSet(client, replica_id) ==
    IF replica_id \in client THEN Some(replica_id) ELSE None

SvcCall(replica, req, answer) == [replica |-> replica, req |-> req, answer |-> answer]

ServiceInit ==
    /\ svc_meta \in Catalogs
    /\ inner \in RaftWriteCommands
    /\ svc_pc = "start"
    /\ svc_calls = <<>>
    /\ svc_ret = NoRpc

ServiceIdle ==
    /\ svc_meta = [t \in {} |-> None]
    /\ inner = [tenant |-> "", replica_id |-> 0]
    /\ svc_pc = "off"
    /\ svc_calls = <<>>
    /\ svc_ret = NoRpc

\* exec_raft_write_command up to its call of exec_write_replica_points: the
\* tenant's catalog, then the replication set; either missing ends the
\* handler with an Internal status.
ExecRaftWriteCommand ==
    /\ svc_pc = "start"
    /\ LET client == SvcTenantMeta(svc_meta, inner.tenant)
       IN  IF client = None
           THEN /\ svc_ret' = TonicStatus("Internal",
                                  Format("Not Found tenant meta", inner.tenant))
                /\ svc_pc' = "done"
                /\ UNCHANGED svc_calls
           ELSE LET replica == GetReplicationSet(client[1], inner.replica_id)
                IN  IF replica = None
                    THEN /\ svc_ret' = TonicStatus("Internal",
                                  Format("Not Found Replica Set", inner.replica_id))
                         /\ svc_pc' = "done"
                         /\ UNCHANGED svc_calls
                    ELSE /\ svc_calls' = Append(svc_calls,
                                  SvcCall(replica[1], inner, NoResult))
                         /\ svc_pc' = "write"
                         /\ UNCHANGED svc_ret
    /\ UNCHANGED <<svc_meta, inner>>
    /\ UNCHANGED nonServiceVars

\* self.coord.exec_write_replica_points(replica, inner, ..).await returns.
ExecWriteReplicaPoints ==
    /\ svc_pc = "write"
    /\ \E r \in WriteAnswers :
         /\ svc_calls' = [svc_calls EXCEPT ![Len(svc_calls)].answer = r]
         /\ svc_ret' = WriteCommandResponse(r)
    /\ svc_pc' = "done"
    /\ UNCHANGED <<svc_meta, inner>>
    /\ UNCHANGED nonServiceVars

ServiceNext ==
    \/ ExecRaftWriteCommand
    \/ ExecWriteReplicaPoints

(***************************************************************************)
(* ColumnGroup::time_page_write_spec.                                      *)
(***************************************************************************)
TimePage(kind, spec, reason) == [kind |-> kind, spec |-> spec, reason |-> reason]
TimePages(g) == {i \in 1..Len(g.pages) : g.pages[i].meta.column.column_type = "Time"}
NoTimePage(g) ==
    TimePage("TsmColumnGroupError", <<>>,
             Format("column group: {} not found time page", g.column_group_id))
\* ColumnGroup::time_page_write_spec returning the last Time page.
TimePageWriteSpecMutLast(g) ==
    IF TimePages(g) = {} THEN NoTimePage(g)
    ELSE TimePage("Ok", g.pages[CHOOSE i \in TimePages(g) :
                                  \A j \in TimePages(g) : j <= i], "")
\* ColumnGroup::time_page_write_spec: pages.iter().find(is_time).cloned()
RECURSIVE FindTimePage(_)
FindTimePage(pages) ==
    IF pages = <<>> THEN <<>>
    ELSE IF Head(pages).meta.column.column_type = "Time" THEN <<Head(pages)>>
    ELSE FindTimePage(Tail(pages))
TimePageWriteSpec(g) ==
    IF FindTimePage(g.pages) = <<>> THEN NoTimePage(g)
    ELSE TimePage("Ok", FindTimePage(g.pages)[1], "")

(***************************************************************************)
(* TskvServiceImpl::warp_exec_admin_command: an admin command run on this  *)
(* node and, when this node is not the leader, on the leader's node        *)
(* (main/src/rpc/tskv.rs).                                                 *)
(***************************************************************************)
AdminCommand(kind, db_name, id, replica_id) ==
    [kind |-> kind, db_name |-> db_name, id |-> id, replica_id |-> replica_id]
AdminCommands ==
    {AdminCommand("CompactVnode", "", 7, 0),
     AdminCommand("AddRaftFollower", "d", 2, 10),
     AdminCommand("RemoveRaftNode", "d", 7, 10),
     AdminCommand("DestoryRaftGroup", "d", 0, 10)}

AdminCommandRequest(tenant_, command_) == [tenant |-> tenant_, command |-> Some(command_)]
NoAdminRequest == [tenant |-> "", command |-> None]

AdminCall(op, node_id, request, res) ==
    [op |-> op, node_id |-> node_id, request |-> request, res |-> res]

\* The `match command`: what is run on this node for a command. Compaction
\* is not told the tenant.
LocalOp(command_) ==
    CASE command_.kind = "CompactVnode" -> "compact"
      [] command_.kind = "AddRaftFollower" -> "add_follower_to_group"
      [] command_.kind = "RemoveRaftNode" -> "remove_node_from_group"
      [] command_.kind = "DestoryRaftGroup" -> "destory_replica_group"
LocalCall(tenant_, command_, res) ==
    AdminCall(LocalOp(command_), 0,
              AdminCommandRequest(IF command_.kind = "CompactVnode" THEN "" ELSE tenant_,
                                  command_),
              res)

\* What an execution, here or on another node, can answer.
AdminAnswers ==
    {Ok, CommonError("e"), RaftNodeError}
        \cup {ForwardToLeader(g, AsU32(v)) : g \in GroupIds, v \in LeaderIds}
\* What get_vnode_all_info can answer for a vnode of a tenant.
AdminLookups(tenant_, vnode) ==
    {[info |-> i, res |-> Ok] : i \in VnodeAnswers \ {NoInfo}}
        \cup {[info |-> NoInfo, res |-> r] :
                 r \in {VnodeNotFound(vnode), TenantNotFound(tenant_)}}

AdminInit ==
    /\ admin_pc = "start"
    /\ admin_tenant \in SvcTenants
    /\ admin_command \in AdminCommands
    /\ admin_calls = <<>>
    /\ admin_result = NoResult
    /\ admin_info = NoInfo
    /\ admin_ret = NoResult

AdminIdle ==
    /\ admin_pc = "off"
    /\ admin_tenant = ""
    /\ admin_command = AdminCommand("", "", 0, 0)
    /\ admin_calls = <<>>
    /\ admin_result = NoResult
    /\ admin_info = NoInfo
    /\ admin_ret = NoResult

\* `let result = match command { ... }`, and the `result` returned at the
\* end when it is not RaftForwardToLeader.
AdminExecLocal ==
    /\ admin_pc = "start"
    /\ \E res \in AdminAnswers :
         /\ admin_calls' = Append(admin_calls, LocalCall(admin_tenant, admin_command, res))
         /\ admin_result' = res
         /\ IF IsForwardToLeader(res)
            THEN admin_pc' = "lookup" /\ admin_ret' = admin_ret
            ELSE admin_pc' = "done" /\ admin_ret' = res
    /\ UNCHANGED <<admin_tenant, admin_command, admin_info>>
    /\ UNCHANGED nonAdminVars

\* A handler that goes on to the other node after a failed lookup.
AdminGetVnodeAllInfoMutGoesOn ==
    /\ admin_pc = "lookup"
    /\ \E a \in AdminLookups(admin_tenant, admin_result.id) :
         /\ admin_calls' = Append(admin_calls,
                AdminCall("get_vnode_all_info", 0,
                          [tenant |-> admin_tenant, vnode_id |-> admin_result.id], a.res))
         /\ admin_info' = a.info
         /\ admin_pc' = "remote" /\ admin_ret' = admin_ret
    /\ UNCHANGED <<admin_tenant, admin_command, admin_result>>
    /\ UNCHANGED nonAdminVars

\* `coordinator::get_vnode_all_info(meta, tenant, vnode_id).await?`
AdminGetVnodeAllInfo ==
    /\ admin_pc = "lookup"
    /\ \E a \in AdminLookups(admin_tenant, admin_result.id) :
         /\ admin_calls' = Append(admin_calls,
                AdminCall("get_vnode_all_info", 0,
                          [tenant |-> admin_tenant, vnode_id |-> admin_result.id], a.res))
         /\ admin_info' = a.info
         /\ IF IsOk(a.res)
            THEN admin_pc' = "remote" /\ admin_ret' = admin_ret
            ELSE admin_pc' = "done" /\ admin_ret' = a.res
    /\ UNCHANGED <<admin_tenant, admin_command, admin_result>>
    /\ UNCHANGED nonAdminVars

\* `return self.coord.exec_admin_command_on_node(info.node_id, req).await`
AdminExecOnNode ==
    /\ admin_pc = "remote"
    /\ \E res \in AdminAnswers :
         /\ admin_calls' = Append(admin_calls,
                AdminCall("exec_admin_command_on_node", admin_info.node_id,
                          AdminCommandRequest(admin_tenant, admin_command), res))
         /\ admin_ret' = res
         /\ admin_pc' = "done"
    /\ UNCHANGED <<admin_tenant, admin_command, admin_result, admin_info>>
    /\ UNCHANGED nonAdminVars

AdminNext ==
    \/ AdminExecLocal
    \/ AdminGetVnodeAllInfo
    \/ AdminExecOnNode

\* The handler goes on whenever the call it awaits has returned.
AdminFairness == WF_vars(AdminNext)

(***************************************************************************)
(* The specifications.                                                     *)
(***************************************************************************)
WriterSpecInit ==
    /\ WriterInit
    /\ PageIdle
    /\ ColumnIdle
    /\ GroupIdle
    /\ ChunkIdle
    /\ FooterIdle
    /\ MergeIdle
    /\ CursorIdle
    /\ ServiceIdle
    /\ DownloadIdle
    /\ AdminIdle
WriterSpec == WriterSpecInit /\ [][WriterNext]_vars

PageSpecInit ==
    /\ PageInit
    /\ WriterIdle
    /\ ColumnIdle
    /\ GroupIdle
    /\ ChunkIdle
    /\ FooterIdle
    /\ MergeIdle
    /\ CursorIdle
    /\ ServiceIdle
    /\ DownloadIdle
    /\ AdminIdle
PageSpec == PageSpecInit /\ [][PageNext]_vars

ColumnSpecInit ==
    /\ ColumnInit
    /\ WriterIdle
    /\ PageIdle
    /\ GroupIdle
    /\ ChunkIdle
    /\ FooterIdle
    /\ MergeIdle
    /\ CursorIdle
    /\ ServiceIdle
    /\ DownloadIdle
    /\ AdminIdle
ColumnSpec == ColumnSpecInit /\ [][ColumnNext]_vars

GroupSpecInit ==
    /\ GroupInit
    /\ WriterIdle
    /\ PageIdle
    /\ ColumnIdle
    /\ ChunkIdle
    /\ FooterIdle
    /\ MergeIdle
    /\ CursorIdle
    /\ ServiceIdle
    /\ DownloadIdle
    /\ AdminIdle
GroupSpec == GroupSpecInit /\ [][GroupNext]_vars

ChunkSpecInit ==
    /\ ChunkInit
    /\ WriterIdle
    /\ PageIdle
    /\ ColumnIdle
    /\ GroupIdle
    /\ FooterIdle
    /\ MergeIdle
    /\ CursorIdle
    /\ ServiceIdle
    /\ DownloadIdle
    /\ AdminIdle
ChunkSpec == ChunkSpecInit /\ [][ChunkNext]_vars

FooterSpecInit ==
    /\ FooterInit
    /\ WriterIdle
    /\ PageIdle
    /\ ColumnIdle
    /\ GroupIdle
    /\ ChunkIdle
    /\ MergeIdle
    /\ CursorIdle
    /\ ServiceIdle
    /\ DownloadIdle
    /\ AdminIdle
FooterSpec == FooterSpecInit /\ [][FooterNext]_vars

MergeSpecInit ==
    /\ MergeInit
    /\ WriterIdle
    /\ PageIdle
    /\ ColumnIdle
    /\ GroupIdle
    /\ ChunkIdle
    /\ FooterIdle
    /\ CursorIdle
    /\ ServiceIdle
    /\ DownloadIdle
    /\ AdminIdle
MergeSpec == MergeSpecInit /\ [][MergeNext]_vars

CursorSpecInit ==
    /\ CursorInit
    /\ WriterIdle
    /\ PageIdle
    /\ ColumnIdle
    /\ GroupIdle
    /\ ChunkIdle
    /\ FooterIdle
    /\ MergeIdle
    /\ ServiceIdle
    /\ DownloadIdle
    /\ AdminIdle
CursorSpec == CursorSpecInit /\ [][CursorNext]_vars

ServiceSpecInit ==
    /\ ServiceInit
    /\ WriterIdle
    /\ PageIdle
    /\ ColumnIdle
    /\ GroupIdle
    /\ ChunkIdle
    /\ FooterIdle
    /\ MergeIdle
    /\ CursorIdle
    /\ DownloadIdle
    /\ AdminIdle
ServiceSpec == ServiceSpecInit /\ [][ServiceNext]_vars

DownloadSpecInit ==
    /\ DownloadInit
    /\ WriterIdle
    /\ PageIdle
    /\ ColumnIdle
    /\ GroupIdle
    /\ ChunkIdle
    /\ FooterIdle
    /\ MergeIdle
    /\ CursorIdle
    /\ ServiceIdle
    /\ AdminIdle
DownloadSpec == DownloadSpecInit /\ [][DownloadNext]_vars /\ DownloadFairness

AdminSpecInit ==
    /\ AdminInit
    /\ WriterIdle
    /\ PageIdle
    /\ ColumnIdle
    /\ GroupIdle
    /\ ChunkIdle
    /\ FooterIdle
    /\ MergeIdle
    /\ CursorIdle
    /\ ServiceIdle
    /\ DownloadIdle
AdminSpec == AdminSpecInit /\ [][AdminNext]_vars /\ AdminFairness

(***************************************************************************)
(* What the claims speak of, read off the calls a write has made.          *)
(***************************************************************************)
IsRemote(c) == c.op = "write_to_remote"
IsProposal(c) == c.op = "propose"
IsLeaderChange(c) == c.op = "change_repl_set_leader"
RemoteIdx == {k \in 1..Len(calls) : IsRemote(calls[k])}
ProposalIdx == {k \in 1..Len(calls) : IsProposal(calls[k])}
LeaderChangeIdx == {k \in 1..Len(calls) : IsLeaderChange(calls[k])}

Dispatched == pc \notin {"off", "start"}
Done == pc = "done"
\* The replication set's leader is this node and a storage engine is attached.
LocalLeader == args.replica.leader_node_id = config.node_id /\ kv_inst
\* The write is in write_to_local_or_forward / in the remote branch.
OnLocalPath == pc = "local" \/ (calls # <<>> /\ calls[1].op = "get_node_or_build")
OnRemotePath == pc = "remote" \/ (calls # <<>> /\ IsRemote(calls[1]))
\* The vnodes of the replication set that are not on the leader node, in list order.
NotOnLeader(v) == v.node_id # args.replica.leader_node_id
Followers == SelectSeq(args.replica.vnodes, NotOnLeader)
\* The request every attempt of this write is to carry.
IncomingRequest ==
    [replica_id |-> args.replica.id, tenant |-> args.tenant, db_name |-> args.db_name,
     precision |-> args.precision, data |-> args.data]
Accepted(c) ==
    \/ IsProposal(c) /\ c.raft.kind = "ok"
    \/ IsRemote(c) /\ c.rpc.step = "response" /\ c.rpc.code = SUCCESS_RESPONSE_CODE

(***************************************************************************)
(* C1: write_to_replica takes the local path, whose write attempt is the   *)
(* proposal to the local Raft node, if and only if the leader node of the  *)
(* replication set is this node and a storage engine is attached; in every *)
(* other case its first call is a remote write to leader_node_id and it    *)
(* never proposes.  (On the local path the Raft node is resolved first and *)
(* the proposal follows when it resolves.)                                 *)
(***************************************************************************)
C1_LocalPathIffLeaderWithEngine ==
    Dispatched =>
      /\ OnLocalPath <=> LocalLeader
      /\ OnRemotePath <=> ~LocalLeader
      /\ ~LocalLeader =>
           /\ ProposalIdx = {}
           /\ calls # <<>> => IsRemote(calls[1])
                              /\ calls[1].node = args.replica.leader_node_id
      /\ LocalLeader =>
           /\ \A k \in RemoteIdx : \E j \in ProposalIdx : j < k
           /\ Len(calls) >= 2 /\ IsOk(calls[1].res) => IsProposal(calls[2])
           /\ Len(calls) >= 1 /\ IsOk(calls[1].res) => pc # "done" \/ Len(calls) >= 2

\* The leader is this node but no engine is attached: the write went remote, to itself.
C1_Witness ==
    /\ Done
    /\ args.replica.leader_node_id = config.node_id
    /\ ~kv_inst
    /\ IsRemote(calls[1])
    /\ calls[1].node = config.node_id
    /\ ProposalIdx = {}

(***************************************************************************)
(* C2: on the remote path, after the call to the leader failed with        *)
(* FailoverNode, the vnodes are called in list order, those on the leader  *)
(* node skipped; the write returns Ok at the first success, goes on to the *)
(* next vnode on FailoverNode, and returns any other error at once; no     *)
(* call follows the one that ended the loop.                               *)
(***************************************************************************)
C2_FailoverInListOrder ==
    OnRemotePath =>
      /\ Len(calls) <= 1 + Len(Followers)
      /\ \A k \in 2..Len(calls) :
           /\ IsRemote(calls[k])
           /\ calls[k].node = Followers[k - 1].node_id
           /\ \A j \in 1..(k - 1) : IsFailoverNode(calls[j].res)
      /\ Done /\ Len(calls) >= 2 =>
           LET last == calls[Len(calls)].res IN
           /\ IsOk(last) => IsOk(ret)
           /\ ~IsOk(last) /\ ~IsFailoverNode(last) => ret = last
           /\ IsFailoverNode(last) => Len(calls) = 1 + Len(Followers)
      /\ Done /\ IsFailoverNode(calls[1].res) /\ Len(calls) = 1 => Followers = <<>>

\* The leader and the first follower fail over, a vnode on the leader node is
\* skipped, and the second follower accepts.
C2_Witness ==
    /\ Done
    /\ OnRemotePath
    /\ Len(calls) = 3
    /\ IsFailoverNode(calls[2].res)
    /\ IsOk(calls[3].res)
    /\ IsOk(ret)
    /\ Len(args.replica.vnodes) = 3
    /\ args.replica.vnodes[2].node_id = args.replica.leader_node_id

(***************************************************************************)
(* C3, as stated: when the call to the leader and the call to every        *)
(* follower fail with FailoverNode, write_to_replica returns the           *)
(* FailoverNode of the last follower attempted.                            *)
(***************************************************************************)
AllFailedOver ==
    /\ Done
    /\ OnRemotePath
    /\ Len(calls) = 1 + Len(Followers)
    /\ \A k \in 1..Len(calls) : IsFailoverNode(calls[k].res)

C3_ReturnsLastFailover == AllFailedOver => ret = calls[Len(calls)].res

(***************************************************************************)
(* C3, amended: when the call to the leader and the call to every follower *)
(* fail with FailoverNode, write_to_replica returns the FailoverNode of    *)
(* the call to the leader (the first one of the write, naming the leader   *)
(* node), whatever the followers answered with.                            *)
(***************************************************************************)
C3_ReturnsLeaderFailover ==
    AllFailedOver =>
      /\ ret = calls[1].res
      /\ IsFailoverNode(ret)
      /\ ret.id = args.replica.leader_node_id

\* Leader and two followers all failed over, the last for another reason than the leader.
C3_Witness ==
    /\ AllFailedOver
    /\ Len(calls) = 3
    /\ calls[3].res.msg # calls[1].res.msg
    /\ calls[3].res.id # calls[1].res.id

(***************************************************************************)
(* C4: when the proposal returns ForwardToLeader naming leader vnode v     *)
(* (and the catalog resolves v and the tenant), the writer first asks the  *)
(* catalog to record v as the leader of the replication set and only then  *)
(* issues exactly one remote write, to the node on which the catalog says  *)
(* v lives; what write_to_replica returns is what that call returned.      *)
(***************************************************************************)
Forwarded(k) == IsProposal(calls[k]) /\ IsForwardToLeader(calls[k].res)
VnodeResolved == \E k \in 1..Len(calls) :
                    calls[k].op = "get_vnode_all_info" /\ IsOk(calls[k].res)
TenantResolved == \E k \in 1..Len(calls) :
                    calls[k].op = "tenant_meta" /\ IsOk(calls[k].res)

C4_LeaderChangeThenOneRemoteWrite ==
    \A p \in ProposalIdx : Forwarded(p) =>
      LET v == calls[p].res.id IN
      /\ Cardinality(RemoteIdx) <= 1
      /\ Cardinality(LeaderChangeIdx) <= 1
      /\ \A c \in LeaderChangeIdx :
           /\ p < c
           /\ calls[c].arg.vnode_id = v
           /\ calls[c].arg.replica_id = args.replica.id
           /\ calls[c].arg.node_id = all_info.node_id
      /\ \A r \in RemoteIdx :
           /\ r = Len(calls)
           /\ IsLeaderChange(calls[r - 1])
           /\ all_info.found
           /\ calls[r].node = all_info.node_id
           /\ Done /\ ret = calls[r].res
      /\ Done /\ VnodeResolved /\ TenantResolved =>
           Cardinality(RemoteIdx) = 1 /\ Cardinality(LeaderChangeIdx) = 1

\* The proposal was forwarded to a vnode on another node than the set's leader
\* node, the catalog was told, and the one remote write to that node succeeded.
C4_Witness ==
    /\ Done
    /\ \E p \in ProposalIdx : Forwarded(p)
    /\ Cardinality(LeaderChangeIdx) = 1
    /\ \E r \in RemoteIdx : /\ calls[r].node # args.replica.leader_node_id
                            /\ IsOk(calls[r].res)
    /\ IsOk(ret)

(***************************************************************************)
(* C5, as stated: a remote write call that fails with FailoverNode always  *)
(* triggers follower fallback before the write returns an error, for the   *)
(* call to the leader on the remote path and also for the call re-issued   *)
(* to the new leader after a ForwardToLeader redirection: when a vnode of  *)
(* the replication set lives on another node than the one that failed, it  *)
(* is tried before the error is returned.                                  *)
(***************************************************************************)
OtherNodeVnode(node) == \E i \in 1..Len(args.replica.vnodes) :
                           args.replica.vnodes[i].node_id # node
FirstRemote == CHOOSE k \in RemoteIdx : \A j \in RemoteIdx : k <= j

C5_FailoverAlwaysFallsBack ==
    Done /\ ~IsOk(ret) /\ RemoteIdx # {} =>
      (IsFailoverNode(calls[FirstRemote].res) /\ OtherNodeVnode(calls[FirstRemote].node)
         => \E k \in RemoteIdx : k > FirstRemote)

(***************************************************************************)
(* C5, amended: a call to the leader on the remote path that fails with    *)
(* FailoverNode (a timeout included) always triggers follower fallback     *)
(* before the write returns: the first vnode not on the leader node is     *)
(* tried next.  The remote call re-issued to the new leader after a        *)
(* ForwardToLeader redirection gets no fallback: its FailoverNode is       *)
(* returned as it is and no other call follows.                            *)
(***************************************************************************)
C5_FallbackOnRemotePathOnly ==
    /\ OnRemotePath /\ Done /\ IsFailoverNode(calls[1].res) /\ Followers # <<>> =>
         /\ Len(calls) >= 2
         /\ IsRemote(calls[2])
         /\ calls[2].node = Followers[1].node_id
    /\ OnLocalPath =>
         \A r \in RemoteIdx : IsFailoverNode(calls[r].res) =>
            /\ r = Len(calls)
            /\ Done /\ ret = calls[r].res

\* The call to the leader timed out and a follower was tried, yet the write failed.
C5_Witness ==
    /\ Done
    /\ OnRemotePath
    /\ calls[1].rpc.status = "DeadlineExceeded"
    /\ Len(calls) >= 2
    /\ ~IsOk(ret)

(***************************************************************************)
(* C6: on the local path, when the proposal returns Ok or an error other   *)
(* than ForwardToLeader, write_to_replica returns exactly that result and  *)
(* makes no remote call, no catalog leader change and no second proposal.  *)
(***************************************************************************)
C6_ProposalResultReturned ==
    \A p \in ProposalIdx : ~IsForwardToLeader(calls[p].res) =>
      /\ Done
      /\ ret = calls[p].res
      /\ p = Len(calls)
      /\ ProposalIdx = {p}
      /\ RemoteIdx = {}
      /\ LeaderChangeIdx = {}

\* The proposal failed with RaftWriteError, here a forward-to-leader with no known leader.
C6_Witness ==
    /\ Done
    /\ ret.kind = "RaftWriteError"
    /\ \E p \in ProposalIdx : calls[p].raft.kind = "forward"

(***************************************************************************)
(* C7: on the remote path, when the call to the leader node fails with an  *)
(* error other than FailoverNode, write_to_replica returns that error      *)
(* unchanged and calls no follower.                                        *)
(***************************************************************************)
C7_LeaderErrorReturned ==
    OnRemotePath /\ calls # <<>> /\ ~IsOk(calls[1].res) /\ ~IsFailoverNode(calls[1].res) =>
      /\ Done
      /\ ret = calls[1].res
      /\ Len(calls) = 1

\* The leader answered with an Internal status while followers were there to try.
C7_Witness ==
    /\ Done
    /\ OnRemotePath
    /\ ret.kind = "TskvError"
    /\ Followers # <<>>
    /\ Len(calls) = 1

(***************************************************************************)
(* C8: if write_to_replica returns Ok, the payload was accepted at least   *)
(* once during the call: the local proposal returned Ok or a remote node   *)
(* answered the write RPC with code SUCCESS.                               *)
(***************************************************************************)
C8_OkMeansAccepted ==
    Done /\ IsOk(ret) => \E k \in 1..Len(calls) : Accepted(calls[k])

\* Ok after the leader and a follower failed and the last follower accepted.
C8_Witness ==
    /\ Done
    /\ IsOk(ret)
    /\ Len(calls) = 3
    /\ ~Accepted(calls[1]) /\ ~Accepted(calls[2])
    /\ Accepted(calls[3])

(***************************************************************************)
(* C9: every proposal and every remote request of one write_to_replica     *)
(* call (the leader attempt, each follower attempt, the request re-issued  *)
(* after a redirection) carries the replica_id, tenant, db_name, precision *)
(* and data of the incoming write.                                         *)
(***************************************************************************)
C9_SameRequestEveryAttempt ==
    /\ \A k \in RemoteIdx : calls[k].req = IncomingRequest
    /\ \A k \in ProposalIdx : FromProstBytes(calls[k].bytes) = IncomingRequest

\* Three attempts, the second and the third after a FailoverNode each.
C9_Witness ==
    /\ Done
    /\ OnRemotePath
    /\ Len(calls) = 3
    /\ IsFailoverNode(calls[1].res) /\ IsFailoverNode(calls[2].res)
    /\ IsOk(ret)
    /\ args.data = <<1, 2>>

(***************************************************************************)
(* C10: crc_validation returns Ok exactly when the CRC stored big-endian   *)
(* in header bytes 12..16 equals the CRC32 of bytes[16 + bitset_len ..];   *)
(* otherwise it returns the hash-check error carrying the stored and the   *)
(* calculated crc, which differ.  A page whose header CRC was computed     *)
(* over its payload validates, and the page returned, in Ok or inside the  *)
(* error, has the bytes and the meta of the page validated.                *)
(***************************************************************************)
\* The two CRCs, read off the page's bytes directly (1-based positions).
C10_StoredBytes == SubSeq(page.bytes, 13, 16)
C10_PayloadStart == 17 + 256 * page.bytes[3] + page.bytes[4]
C10_CalculatedBytes ==
    U32ToBeBytes(Crc32(SubSeq(page.bytes, C10_PayloadStart, Len(page.bytes))))

C10_CrcValidation ==
    crc_ret.kind \notin {"none", "panic"} =>
      /\ crc_ret.kind \in {"Ok", "TSMPageFileHashCheckFailed"}
      /\ crc_ret.kind = "Ok" <=> C10_StoredBytes = C10_CalculatedBytes
      /\ crc_ret.kind = "TSMPageFileHashCheckFailed" =>
           /\ U32ToBeBytes(crc_ret.crc) = C10_StoredBytes
           /\ U32ToBeBytes(crc_ret.crc_calculated) = C10_CalculatedBytes
           /\ crc_ret.crc # crc_ret.crc_calculated
      /\ crc_ret.page = page
      /\ flips = 0 => crc_ret.kind = "Ok"

\* A byte of the payload behind a non-empty bitmap was overwritten, and the
\* validation reports the two CRCs.
C10_Witness ==
    /\ crc_ret.kind = "TSMPageFileHashCheckFailed"
    /\ flips = 1
    /\ page.bytes[4] = 1
    /\ crc_ret.crc # crc_ret.crc_calculated
    /\ crc_ret.page = page

(***************************************************************************)
(* Page::to_column.                                                        *)
(***************************************************************************)
ToColumnCalled == col_ret # NoColumnRet
ToColumnOk == col_ret.kind = "Ok"
SupportedPage == col_page.meta.column.column_type \in SupportedTypes
\* The values the payload of the page decodes to.
DecodedTarget == CodecDecode(get_encoding(DataBuffer(col_page)), DataBuffer(col_page))
\* How many bits are set among bits 0..i of the bitmap.
Rank(bitset, i) == Cardinality({j \in 0..i : BitSetGet(bitset, j)})
PresentRows == {i \in 1..Len(col_ret.col.data) : col_ret.col.data[i] # None}

\* C11, as stated: a column to_column returns has as many rows as the page
\* meta's num_values.
C11_LengthIsNumValues ==
    ToColumnOk => Len(col_ret.col.data) = col_page.meta.num_values

\* C11, amended: a column to_column returns has as many rows as the row count
\* of the page header (the length of the null bitmap), which is the meta's
\* num_values as long as the stored bytes are those the page was built with;
\* row i holds a value iff bit i of the bitmap is set, the rows holding a value
\* are as many as the set bits, and the k-th set bit holds the k-th decoded
\* value in the variant of the column's type.
C11_ColumnFollowsBitmap ==
    ToColumnOk =>
      LET bitset == NullBitset(col_page)
          data == col_ret.col.data
      IN /\ SupportedPage
         /\ Len(data) = bitset.len
         /\ damage = 0 => Len(data) = col_page.meta.num_values
         /\ \A i \in 0..(bitset.len - 1) : (data[i + 1] # None) <=> BitSetGet(bitset, i)
         /\ Cardinality(PresentRows) = Popcount(bitset)
         /\ \A i \in 0..(bitset.len - 1) :
              BitSetGet(bitset, i) =>
                data[i + 1] = Some(FieldVal(FieldValKind(col_page.meta.column.column_type),
                                            DecodedTarget.target[Rank(bitset, i)]))
C11_Witness ==
    /\ ToColumnOk
    /\ Len(col_ret.col.data) = 3
    /\ col_ret.col.data[1] # None
    /\ col_ret.col.data[2] = None
    /\ col_ret.col.data[3] # None
    /\ col_ret.col.data[1] # col_ret.col.data[3]

\* C12: when the payload of a page of a supported type decodes to fewer values
\* than the null bitmap has set bits, to_column returns TsmPageError with the
\* reason "data buffer not enough", and no column.
C12_DataBufferNotEnough ==
    (/\ ToColumnCalled
     /\ SupportedPage
     /\ EnvelopeInRange(col_page)
     /\ DecodedTarget.ok
     /\ Len(DecodedTarget.target) < Popcount(NullBitset(col_page)))
    => col_ret = ColumnRet("TsmPageError", "data buffer not enough", NoColumn)
C12_Witness ==
    /\ col_ret = TsmPageError("data buffer not enough")
    /\ SupportedPage
    /\ Popcount(NullBitset(col_page)) = 3
    /\ Len(DecodedTarget.target) = 2

\* C13: to_column of the page built from a sequence of optional values returns
\* that sequence, each present value in the variant of the column's type, for
\* every supported type, every encoding and every pattern of present and
\* absent rows.
C13_BuildThenToColumn ==
    (ToColumnCalled /\ damage = 0 /\ SupportedPage) =>
      /\ ToColumnOk
      /\ col_ret.col.col_type = col_page.meta.column.column_type
      /\ Len(col_ret.col.data) = Len(col_vals)
      /\ \A i \in 1..Len(col_vals) :
           col_ret.col.data[i] =
             IF col_vals[i] = None THEN None
             ELSE Some(FieldVal(FieldValKind(col_page.meta.column.column_type),
                                col_vals[i][1]))
C13_Witness ==
    /\ ToColumnOk
    /\ damage = 0
    /\ col_vals = <<Some(200), None, Some(3)>>
    /\ get_encoding(DataBuffer(col_page)) = 1
    /\ col_page.meta.column.column_type = "String"

(***************************************************************************)
(* Chunk::push.                                                            *)
(***************************************************************************)
LastPush == chunk_call.op = "push"
\* The groups of the chunk that follow each other in ascending id.
AdjacentById(g, h) ==
    /\ g.column_group_id < h.column_group_id
    /\ ~\E x \in chunk.column_groups :
          g.column_group_id < x.column_group_id /\ x.column_group_id < h.column_group_id
\* A push of a group that starts before the chunk's max_ts is rejected.
EarlyGroupRejected ==
    (LastPush /\ chunk_call.column_group.time_range.min_ts < chunk_call.before.time_range.max_ts)
    => chunk_call.ret.kind = "TsmColumnGroupError"

\* C14, as stated: the column groups of a chunk, taken in ascending id, have
\* max_ts of each at most min_ts of the next, and a push of a group that
\* starts before the chunk's max_ts is rejected.
C14_OrderedById ==
    /\ \A g, h \in chunk.column_groups :
         AdjacentById(g, h) => g.time_range.max_ts <= h.time_range.min_ts
    /\ EarlyGroupRejected

\* C14, amended: the column groups of a chunk, taken in the order push
\* inserted them, have max_ts of each at most min_ts of every later one; the
\* chunk holds exactly these groups; a push of a group that starts before the
\* chunk's max_ts is rejected with TsmColumnGroupError and changes nothing.
C14_OrderedAsPushed ==
    /\ \A j, k \in 1..Len(push_order) :
         j < k => push_order[j].time_range.max_ts <= push_order[k].time_range.min_ts
    /\ chunk.column_groups = {push_order[k] : k \in 1..Len(push_order)}
    /\ EarlyGroupRejected
    /\ (LastPush /\ chunk_call.column_group.time_range.min_ts
                      < chunk_call.before.time_range.max_ts)
       => chunk = chunk_call.before
C14_Witness ==
    /\ Len(push_order) = 2
    /\ push_order[1].column_group_id > push_order[2].column_group_id
    /\ push_order[1].time_range.max_ts < push_order[2].time_range.min_ts
    /\ push_order[2].time_range # TimeRangeNone
    /\ LastPush
    /\ chunk_call.column_group.time_range.min_ts < chunk_call.before.time_range.max_ts
    /\ chunk_call.ret.kind = "TsmColumnGroupError"

\* C15: a push of a column group whose id the chunk already holds returns
\* TsmColumnGroupError and leaves time_range, the column groups and
\* next_column_group_id of the chunk as they were before the call.
C15_DuplicateLeavesChunkUnchanged ==
    (LastPush /\ HasColumnGroup(chunk_call.before, chunk_call.column_group.column_group_id))
    => /\ chunk_call.ret.kind = "TsmColumnGroupError"
       /\ chunk.time_range = chunk_call.before.time_range
       /\ chunk.column_groups = chunk_call.before.column_groups
       /\ chunk.next_column_group_id = chunk_call.before.next_column_group_id

(***************************************************************************)
(* ColumnGroup::push.                                                      *)
(***************************************************************************)
\* C16: the pages of a column group are contiguous: each page starts where
\* the page before it ends.
C16_PagesContiguous ==
    \A i \in 1..(Len(column_group.pages) - 1) :
      column_group.pages[i].offset + column_group.pages[i].size
        = column_group.pages[i + 1].offset

\* C17, as stated: every page of a column group has the num_values that
\* row_len returns.
C17_SameNumValues ==
    \A i \in 1..Len(column_group.pages) :
      column_group.pages[i].meta.num_values = RowLen(column_group)

\* C17, amended: row_len is the num_values of the first page pushed, 0 for a
\* group without pages; it is the num_values of every page of the group
\* exactly when the pages pushed agree on num_values, which push does not
\* look at.
C17_RowLenIsFirstPage ==
    /\ RowLen(column_group) =
         IF Len(column_group.pages) = 0 THEN 0
         ELSE column_group.pages[1].meta.num_values
    /\ C17_SameNumValues <=>
         \A i, j \in 1..Len(column_group.pages) :
           column_group.pages[i].meta.num_values = column_group.pages[j].meta.num_values
C17_Witness ==
    /\ Len(column_group.pages) = 3
    /\ RowLen(column_group) = 1
    /\ column_group.pages[2].meta.num_values = 2
    /\ column_group.pages[3].meta.num_values = 1

(***************************************************************************)
(* Footer.                                                                 *)
(***************************************************************************)
FooterWasRead == footer_read # NoFooterRead

\* C18: deserialize of the bytes serialize returned for a footer is Ok and
\* gives a footer equal to it in version, time range, table meta and series
\* meta with its bloom filter.
C18_FooterRoundTrip ==
    FooterWasRead => footer_read = FooterRead("Ok", footer)
C18_Witness ==
    /\ footer_read.kind = "Ok"
    /\ footer_read.footer.version = 1
    /\ footer_read.footer.time_range.min_ts < 0
    /\ footer_read.footer.table.chunk_group_offset > 65535
    /\ Cardinality(inserted) = 2

\* C19: maybe_series_exist is true for every series id inserted into the
\* bloom filter of the footer, on the footer itself and on the footer read
\* back from its serialized bytes.
C19_NoFalseNegative ==
    \A series_id \in inserted :
      /\ MaybeSeriesExist(footer, series_id)
      /\ footer_read.kind = "Ok" => MaybeSeriesExist(footer_read.footer, series_id)
C19_Witness ==
    /\ footer_read.kind = "Ok"
    /\ inserted = {1, 256}
    /\ MaybeSeriesExist(footer_read.footer, 1)
    /\ MaybeSeriesExist(footer_read.footer, 256)
    /\ MaybeSeriesExist(footer_read.footer, 9)
    /\ ~MaybeSeriesExist(footer_read.footer, 2)

(***************************************************************************)
(* ParallelMergeAdapter.                                                   *)
(***************************************************************************)
RECURSIVE RowsOf(_)
RowsOf(items) == IF items = <<>> THEN 0 ELSE Head(items).rows + RowsOf(Tail(items))
ChildrenEmitting == {emitted[k].child : k \in {n \in 1..Len(emitted) : emitted[n].kind = "batch"}}

\* C20: the batches a stream of a ParallelMergeAdapter with limit L has
\* emitted hold at most L rows in total, whatever the children, their batch
\* sizes and the order in which their batches arrive.
C20_AtMostLimitRows ==
    limit # None => RowsOf(emitted) <= limit[1]
C20_Witness ==
    /\ limit = Some(3)
    /\ RowsOf(emitted) = 3
    /\ Cardinality(ChildrenEmitting) = 2
    /\ Len(emitted) > 0
    /\ emitted[Len(emitted)] = EndOfStream
    /\ \E i \in 1..Len(inputs) : inputs[i].items # <<>>

FirstEnd(k) ==
    /\ emitted[k] = EndOfStream
    /\ \A j \in 1..(k - 1) : emitted[j] # EndOfStream

\* C21: with limit L the stream ends immediately once L rows are out: a
\* poll after the one that brought the rows to L reports the end of the
\* stream (a poll that finds nothing ready is not held against it, nor is
\* what a poll after the reported end returns); and a
\* stream that has just reported its end has emitted exactly L rows unless
\* its children held fewer.
C21_EndsAtLimit ==
    limit # None =>
      /\ \A k \in 0..(Len(emitted) - 1) :
           (/\ RowsOf(SubSeq(emitted, 1, k)) = limit[1]
            /\ \A j \in 1..k : emitted[j] # EndOfStream) =>
             emitted[k + 1] \in {EndOfStream, Pending}
      /\ (Len(emitted) > 0 /\ FirstEnd(Len(emitted))) =>
           \/ RowsOf(emitted) = limit[1]
           \/ \A i \in 1..Len(inputs) : inputs[i].items = <<>>

\* C22: after an error of a child the merged stream ends: what it emits
\* after the error is the end of the stream, neither a batch nor another
\* error.
C22_ErrorOnceThenEnd ==
    \A k \in 1..Len(emitted) :
      emitted[k].kind = "error" =>
        \A j \in (k + 1)..Len(emitted) : emitted[j] \in {EndOfStream, Pending}

\* The items partition i's stream has handed to poll_next so far.
Consumed(i) ==
    SubSeq(cursor_src[i].items, 1,
           Len(cursor_src[i].items) - Len(cursor_stream.streams[i].items))
IsEmptyBatch(item) == item.kind = "batch" /\ item.rows = 0
IsDelivery(p) == p.item.kind \in {"batch", "error"}
Delivered(i) ==
    LET d == SelectSeq(cursor_polled[i], IsDelivery)
    IN  [k \in 1..Len(d) |-> d[k].item]
NotEmptyBatch(item) == ~IsEmptyBatch(item) /\ item.kind # "end"

\* C23: poll_next(idx) never returns a successful batch of zero rows; the
\* batches and errors it has returned for a partition are, in order and
\* with none missing, the items that partition's stream handed over minus
\* its empty batches; each batch comes with a cursor over the time column
\* of its stream; and the end is reported only once the stream is used up.
C23_SkipsEmptyBatches ==
    cursor_stream.kind = "Ok" =>
      \A i \in 1..Len(cursor_polled) :
        /\ \A k \in 1..Len(cursor_polled[i]) :
             /\ ~IsEmptyBatch(cursor_polled[i][k].item)
             /\ cursor_polled[i][k].item.kind = "batch" =>
                  cursor_polled[i][k].cursor =
                      Some(ConvertBatch(cursor_polled[i][k].item, cursor_src[i].column[1]))
             /\ cursor_polled[i][k].item.kind = "end" =>
                  /\ cursor_stream.streams[i].done
                  /\ \/ cursor_stream.streams[i].items = <<>>
                     \/ \E c \in 1..Len(Consumed(i)) : Consumed(i)[c].kind = "end"
        /\ Delivered(i) = SelectSeq(Consumed(i), NotEmptyBatch)

\* A partition has returned a batch that followed an empty batch in its
\* stream.
C23_Witness ==
    /\ cursor_stream.kind = "Ok"
    /\ \E i \in 1..Len(cursor_polled) : \E k \in 1..Len(cursor_polled[i]) :
         /\ cursor_polled[i][k].item.kind = "batch"
         /\ \E j \in 1..(cursor_polled[i][k].item.id - 1) :
              IsEmptyBatch(cursor_src[i].items[j])

RECURSIVE ConcatData(_)
ConcatData(frames) ==
    IF frames = <<>> THEN <<>> ELSE Head(frames).data \o ConcatData(Tail(frames))
IsPrefixOf(s, t) == Len(s) <= Len(t) /\ s = SubSeq(t, 1, Len(s))
FrameWellFormed(f) ==
    /\ f.code = SUCCESS_RESPONSE_CODE
    /\ Len(f.data) \in 1..BufferLen

\* C24 as stated: once the response stream of download_file has ended, it
\* has yielded frames of at most the buffer's length with code SUCCESS whose
\* data, joined in order, are the file's bytes, and no frame at all if the
\* file could not be opened.
C24_StreamIsTheFile ==
    recv = "closed" =>
      /\ \A k \in 1..Len(received) : FrameWellFormed(received[k])
      /\ IF file = None THEN received = <<>>
         ELSE ConcatData(received) = file[1]

\* What holds of the frames at every moment: they are well formed, in the
\* order of the file and without gaps; a stream that ended after the task
\* read the file to its end has yielded all of it; a stream can only end
\* when the task has; a file that cannot be opened gives no frame.
FramesFollowFile ==
    /\ \A k \in 1..Len(received) : FrameWellFormed(received[k])
    /\ \A k \in 1..Len(channel) : FrameWellFormed(channel[k])
    /\ recv = "closed" => task = "done"
    /\ IF file = None THEN received = <<>> /\ channel = <<>>
       ELSE /\ IsPrefixOf(ConcatData(received \o channel), file[1])
            /\ recv # "dropped" =>
                 Len(ConcatData(received \o channel)) =
                     IF task = "send" THEN file_pos - read_ret.len ELSE file_pos
            /\ (recv = "closed" /\ read_ret.kind # "Err") =>
                 ConcatData(received) = file[1]

\* C24, amended: the frames are well formed and follow the file; the stream
\* ends with the whole file when the end of the file was reached, with the
\* frames read before it when a read failed, and with no frame when the
\* file cannot be opened; and the task that produces them terminates, given
\* that a stream that is not dropped keeps taking frames.
C24_DownloadFile ==
    /\ []FramesFollowFile
    /\ (task = "open") ~> (task = "done")

\* A file of several frames has been streamed to its end.
C24_Witness ==
    /\ recv = "closed"
    /\ file # None
    /\ read_ret = ReadRet("Ok", 0)
    /\ Len(received) >= 2
    /\ ConcatData(received) = file[1]
    /\ \E k \in 1..Len(received) : Len(received[k].data) < BufferLen

TenantKnown == inner.tenant \in DOMAIN svc_meta /\ svc_meta[inner.tenant] # None
ReplicaSetKnown == TenantKnown /\ inner.replica_id \in svc_meta[inner.tenant][1]

\* C25: the write handler answers a request whose tenant or replication set
\* is unknown with an Internal status and executes no write; otherwise it
\* executes one write, on that replication set with that request, and
\* answers SUCCESS with empty data if the write succeeded and FAILED with
\* the error's message if it failed.
C25_WriteCommandAnswer ==
    /\ ~ReplicaSetKnown => svc_calls = <<>>
    /\ svc_pc = "done" =>
         IF ~ReplicaSetKnown
         THEN /\ svc_ret.step = "status"
              /\ svc_ret.status = "Internal"
         ELSE /\ Len(svc_calls) = 1
              /\ svc_calls[1].replica = inner.replica_id
              /\ svc_calls[1].req = inner
              /\ svc_ret.step = "response"
              /\ IF svc_calls[1].answer = Ok
                 THEN svc_ret.code = SUCCESS_RESPONSE_CODE /\ svc_ret.data = ""
                 ELSE /\ svc_ret.code = FAILED_RESPONSE_CODE
                      /\ svc_ret.data = svc_calls[1].answer.msg

\* A write that failed has been answered.
C25_Witness ==
    /\ svc_pc = "done"
    /\ Len(svc_calls) = 1
    /\ svc_calls[1].answer = RaftWriteError("raft write failed")
    /\ svc_ret = StatusResponse(FAILED_RESPONSE_CODE, "raft write failed")

\* A request for an unknown replication set of a known tenant has been
\* answered.
C25_WitnessInternal ==
    /\ svc_pc = "done"
    /\ TenantKnown
    /\ ~ReplicaSetKnown
    /\ svc_ret.status = "Internal"

\* C26: the answer of change_repl_set_leader does not bear on the write:
\* whether it succeeded or failed, the next step is the remote write to the
\* node of the resolved vnode, and write_to_replica returns what that
\* remote write returned.
C26_LeaderChangeOutcomeIgnored ==
    \A c \in LeaderChangeIdx :
      IF c = Len(calls)
      THEN pc = "forward" /\ ret = NoResult
      ELSE /\ c + 1 = Len(calls)
           /\ IsRemote(calls[c + 1])
           /\ calls[c + 1].node = all_info.node_id
           /\ calls[c + 1].req = IncomingRequest
           /\ calls[c + 1].res = WriteToRemote(all_info.node_id, calls[c + 1].rpc)
           /\ Done
           /\ ret = calls[c + 1].res

\* The catalog refused the leader change and the remote write was accepted.
C26_Witness ==
    /\ Done
    /\ IsOk(ret)
    /\ \E c \in LeaderChangeIdx :
         /\ ~IsOk(calls[c].res)
         /\ IsRemote(calls[c + 1])
         /\ IsOk(calls[c + 1].res)

CallsOf(op) == {k \in 1..Len(calls) : calls[k].op = op}

\* C27: in the handling of a leader change the vnode is resolved first and
\* the tenant's catalog second; when the vnode is not resolved the write
\* returns VnodeNotFound, when the catalog is not it returns TenantNotFound,
\* and in both cases the write ends there, with no leader change recorded
\* and no remote write.
C27_LookupsBeforeLeaderChange ==
    /\ \A t \in CallsOf("tenant_meta") :
         /\ t > 1
         /\ calls[t - 1].op = "get_vnode_all_info"
         /\ IsOk(calls[t - 1].res)
    /\ \A c \in LeaderChangeIdx :
         /\ c > 1
         /\ calls[c - 1].op = "tenant_meta"
         /\ IsOk(calls[c - 1].res)
    /\ \A v \in CallsOf("get_vnode_all_info") :
         /\ v > 1
         /\ Forwarded(v - 1)
         /\ ~IsOk(calls[v].res) =>
              /\ Done
              /\ ret = VnodeNotFound(calls[v - 1].res.id)
              /\ v = Len(calls)
              /\ LeaderChangeIdx = {}
              /\ RemoteIdx = {}
    /\ \A t \in CallsOf("tenant_meta") :
         ~IsOk(calls[t].res) =>
              /\ Done
              /\ ret = TenantNotFound(args.tenant)
              /\ t = Len(calls)
              /\ LeaderChangeIdx = {}
              /\ RemoteIdx = {}

\* The vnode was resolved and the tenant's catalog was not.
C27_Witness ==
    /\ Done
    /\ ret = TenantNotFound(args.tenant)
    /\ VnodeResolved
    /\ LeaderChangeIdx = {}
    /\ RemoteIdx = {}

\* C28: write_to_raft returns Ok when client_write succeeded; ForwardToLeader
\* with the group id of the leader node and the lower 32 bits of the leader
\* id when client_write reported forward-to-leader with both known; and
\* RaftWriteError for every other error of client_write, a forward-to-leader
\* with the leader id or the leader node unknown among them.
C28_WriteToRaftResult ==
    \A p \in ProposalIdx :
      LET raft == calls[p].raft
          res == calls[p].res
      IN  /\ raft.kind = "ok" => res = Ok
          /\ (raft.kind = "forward" /\ raft.leader_id # None /\ raft.leader_node # None) =>
               /\ res.kind = "ForwardToLeader"
               /\ res.replica_id = raft.leader_node[1]
               /\ res.id = raft.leader_id[1].lo
          /\ (raft.kind = "error"
                \/ (raft.kind = "forward"
                      /\ (raft.leader_id = None \/ raft.leader_node = None))) =>
               res.kind = "RaftWriteError"

\* A forward-to-leader whose leader id does not fit 32 bits, for a group
\* other than the replication set of the write.
C28_Witness ==
    \E p \in ProposalIdx :
      /\ calls[p].raft = Raft("forward", Some(U64(1, 8)), Some(11))
      /\ calls[p].res = ForwardToLeader(11, 8)

\* C29: write_to_remote gives FailoverNode with the target node's id when
\* no connection to the node is had and for every gRPC status but Internal;
\* TskvError for the status Internal; for a response whose code is not
\* SUCCESS an error with the response's data, which is no FailoverNode; and
\* Ok for a response with code SUCCESS and for nothing else.
C29_RemoteOutcome ==
    \A k \in RemoteIdx :
      LET rpc == calls[k].rpc
          res == calls[k].res
      IN  /\ rpc.step = "conn_err" => IsFailoverNode(res) /\ res.id = calls[k].node
          /\ (rpc.step = "status" /\ rpc.status # "Internal") =>
               IsFailoverNode(res) /\ res.id = calls[k].node
          /\ (rpc.step = "status" /\ rpc.status = "Internal") => res.kind = "TskvError"
          /\ (rpc.step = "response" /\ rpc.code # SUCCESS_RESPONSE_CODE) =>
               /\ ~IsOk(res)
               /\ ~IsFailoverNode(res)
               /\ res.msg = rpc.data
          /\ IsOk(res) <=> (rpc.step = "response" /\ rpc.code = SUCCESS_RESPONSE_CODE)

\* Remote calls of one write met a status other than Internal and the
\* status Internal.
C29_Witness ==
    \E j, k \in RemoteIdx :
      /\ calls[j].rpc = Rpc("status", "DeadlineExceeded", 0, "")
      /\ calls[j].res = FailoverNode(calls[j].node, "DeadlineExceeded")
      /\ calls[k].rpc.status = "Internal"
      /\ calls[k].res.kind = "TskvError"

\* The ForwardToLeader error that led to leader change c.
HintOf(c) == calls[CHOOSE p \in ProposalIdx : p < c].res

\* C30, as stated: the leader change recorded in the catalog names the
\* leader vnode id and the replica (group) id of the consensus hint.
C30_LeaderChangeNamesHint ==
    \A c \in LeaderChangeIdx :
      /\ calls[c].arg.vnode_id = HintOf(c).id
      /\ calls[c].arg.replica_id = HintOf(c).replica_id

\* C30, amended: the leader change recorded in the catalog names the leader
\* vnode id of the consensus hint and the replica id of the write's own
\* request, which is the id of the replication set written to; the group
\* id of the hint is not used.
C30_LeaderChangeNamesRequestReplica ==
    \A c \in LeaderChangeIdx :
      /\ calls[c].arg.vnode_id = HintOf(c).id
      /\ calls[c].arg.replica_id = args.replica.id
      /\ calls[c].arg.replica_id = IncomingRequest.replica_id

\* A leader change was recorded after a hint that names another group than
\* the replication set of the write.
C30_Witness ==
    \E c \in LeaderChangeIdx :
      /\ HintOf(c).replica_id # args.replica.id
      /\ calls[c].arg.replica_id = args.replica.id
      /\ calls[c].arg.vnode_id = HintOf(c).id

\* C31: a column group that holds pages has, as its pages_offset, the offset
\* of the first page pushed, whatever that offset is, 0 included.
C31_PagesOffsetIsFirstPage ==
    (~panicked /\ column_group.pages # <<>>) =>
      column_group.pages_offset = column_group.pages[1].offset

\* The span of a set of column groups: the least min_ts and the greatest
\* max_ts among them, the empty range for no group.
SpanOf(groups) ==
    IF groups = {} THEN TimeRangeNone
    ELSE TimeRange(CHOOSE a \in {g.time_range.min_ts : g \in groups} :
                       \A g \in groups : a <= g.time_range.min_ts,
                   CHOOSE b \in {g.time_range.max_ts : g \in groups} :
                       \A g \in groups : b >= g.time_range.max_ts)

\* C32: after any calls of push, accepted or rejected, the chunk's time_range
\* is the span of the column groups it holds, and the empty range when it
\* holds none.
C32_TimeRangeIsSpan ==
    chunk.time_range = SpanOf(chunk.column_groups)

HeldIds == {g.column_group_id : g \in chunk.column_groups}
LastNextId == chunk_call.op = "next_column_group_id"

\* C33, as stated: next_column_group_id hands out 0, 1, 2, ... and the ids
\* of the column groups a chunk holds are 0 .. len-1, each below
\* current_next_column_group_id.
C33_IdsDense ==
    /\ LastNextId =>
         /\ chunk_call.ret = ChunkRet("Id", chunk_call.before.next_column_group_id)
         /\ chunk.next_column_group_id = chunk_call.before.next_column_group_id + 1
    /\ HeldIds = 0..(Cardinality(chunk.column_groups) - 1)
    /\ \A id \in HeldIds : id < chunk.next_column_group_id

\* C33, amended: next_column_group_id returns the counter, which starts at 0,
\* and adds one to it, and push leaves the counter alone, so that successive
\* calls return 0, 1, 2, ... without repetition; push takes a group with any
\* id the chunk does not hold yet, so the ids held are pairwise distinct,
\* but neither dense nor below the counter unless the callers see to it.
C33_CounterAndDistinctIds ==
    /\ LastNextId =>
         /\ chunk_call.ret = ChunkRet("Id", chunk_call.before.next_column_group_id)
         /\ chunk.next_column_group_id = chunk_call.before.next_column_group_id + 1
         /\ chunk.column_groups = chunk_call.before.column_groups
    /\ LastPush =>
         chunk.next_column_group_id = chunk_call.before.next_column_group_id
    /\ chunk_call.op = "none" => chunk.next_column_group_id = 0
    /\ Cardinality(HeldIds) = Cardinality(chunk.column_groups)
    /\ (LastPush /\ chunk_call.ret.kind = "Ok") =>
         /\ chunk_call.column_group.column_group_id
              \notin {g.column_group_id : g \in chunk_call.before.column_groups}
         /\ chunk.column_groups =
              chunk_call.before.column_groups \cup {chunk_call.column_group}

\* The counter has handed out id 0 and the chunk holds one group, with id 1.
C33_Witness ==
    /\ LastNextId
    /\ chunk_call.ret = ChunkRet("Id", 0)
    /\ HeldIds = {1}

(***************************************************************************)
(* ColumnGroup::time_page_write_spec.                                      *)
(***************************************************************************)
\* C34, as stated: a column group built through push holds exactly one page
\* of column type Time, which time_page_write_spec returns.
C34_ExactlyOneTimePage ==
    (~panicked /\ column_group.pages # <<>>) =>
      /\ Cardinality(TimePages(column_group)) = 1
      /\ TimePageWriteSpec(column_group).kind = "Ok"

\* C34, amended: push does not look at column types, so a group holds any
\* number of Time pages; time_page_write_spec returns the first Time page in
\* push order, and TsmColumnGroupError when the group holds none.
C34_FirstTimePage ==
    LET found == TimePageWriteSpec(column_group)
    IN /\ TimePages(column_group) = {} <=> found.kind = "TsmColumnGroupError"
       /\ TimePages(column_group) # {} =>
            \E i \in TimePages(column_group) :
              /\ \A j \in TimePages(column_group) : i <= j
              /\ found = TimePage("Ok", column_group.pages[i], "")
C34_Witness ==
    /\ ~panicked
    /\ Len(column_group.pages) = 3
    /\ TimePages(column_group) = {2, 3}
    /\ TimePageWriteSpec(column_group).spec.offset = column_group.pages[2].offset
    /\ column_group.pages[2].offset # column_group.pages[3].offset

(***************************************************************************)
(* PartitionedStream.                                                      *)
(***************************************************************************)
\* C35: a poll_next(idx) takes items from the stream of partition idx only:
\* the stream and the returned items of every other partition are as they
\* were before the call; and partitions() is the number of streams the
\* cursor stream was made from, before and after every call.
C35_PollTouchesOnePartition ==
    [][cursor_stream.kind = "Ok" =>
         /\ Partitions(cursor_stream) = Len(cursor_src)
         /\ Partitions(cursor_stream') = Len(cursor_src)
         /\ \E idx \in 1..Partitions(cursor_stream) :
              /\ Len(cursor_polled'[idx]) = Len(cursor_polled[idx]) + 1
              /\ \A j \in (1..Partitions(cursor_stream)) \ {idx} :
                   /\ cursor_stream'.streams[j] = cursor_stream.streams[j]
                   /\ cursor_polled'[j] = cursor_polled[j]]_vars

\* Of two partitions the first has been polled to its end, after it had
\* delivered a batch, and the second holds all the items of its stream.
C35_Witness ==
    /\ cursor_stream.kind = "Ok"
    /\ Partitions(cursor_stream) = 2
    /\ cursor_stream.streams[1].done
    /\ \E k \in 1..Len(cursor_polled[1]) : cursor_polled[1][k].item.kind = "batch"
    /\ cursor_polled[2] = <<>>
    /\ cursor_stream.streams[2].items = cursor_src[2].items
    /\ cursor_src[2].items # <<>>

(***************************************************************************)
(* warp_exec_admin_command.                                                *)
(***************************************************************************)
IsExecOnNode(c) == c.op = "exec_admin_command_on_node"
AdminAnswered ==
    LET first == admin_calls[1] IN
    /\ first = LocalCall(admin_tenant, admin_command, first.res)
    /\ IF ~IsForwardToLeader(first.res)
       THEN /\ Len(admin_calls) = 1
            /\ admin_ret = first.res
       ELSE /\ admin_calls[2].op = "get_vnode_all_info"
            /\ admin_calls[2].request = [tenant |-> admin_tenant, vnode_id |-> first.res.id]
            /\ IF ~IsOk(admin_calls[2].res)
               THEN /\ Len(admin_calls) = 2
                    /\ admin_ret = admin_calls[2].res
               ELSE /\ Len(admin_calls) = 3
                    /\ admin_calls[3] =
                         AdminCall("exec_admin_command_on_node", admin_info.node_id,
                                   AdminCommandRequest(admin_tenant, admin_command),
                                   admin_ret)
AdminShape ==
    /\ Len(SelectSeq(admin_calls, IsExecOnNode)) <= 1
    /\ admin_pc = "done" => AdminAnswered

\* C36: an admin command whose local execution fails with a forward-to-leader
\* error has the leader vnode looked up in the catalog for the same tenant
\* and is then executed once, same command and same tenant, on the node the
\* lookup names, whose answer is returned; any other local answer is
\* returned with no execution elsewhere, and so is the error of a failed
\* lookup; and the handler returns once the calls it awaits have.
C36_AdminRetargetsOnce ==
    /\ []AdminShape
    /\ (admin_pc = "start") ~> (admin_pc = "done")

\* The command went to node 3, which answered with a forward-to-leader error
\* of its own, and that is what the handler returned.
C36_Witness ==
    /\ admin_pc = "done"
    /\ Len(admin_calls) = 3
    /\ admin_calls[3].node_id = 3
    /\ IsForwardToLeader(admin_ret)
    /\ admin_ret # admin_result

(***************************************************************************)
(* The attempts of one write_to_replica.                                   *)
(***************************************************************************)
RemoteTo(n) == {k \in RemoteIdx : calls[k].node = n}
DistinctNodes ==
    \A i, j \in 1..Len(args.replica.vnodes) :
      i # j => args.replica.vnodes[i].node_id # args.replica.vnodes[j].node_id
NoSecondCallToFailedNode ==
    \A i, j \in RemoteIdx :
      (i < j /\ IsFailoverNode(calls[i].res)) => calls[j].node # calls[i].node
\* On the remote path the k-th remote call after the leader's is the call of
\* the k-th vnode that is not on the leader node: one call for a vnode.
OneCallPerVnode ==
    OnRemotePath =>
      /\ Len(calls) = Cardinality(RemoteIdx)
      /\ \A k \in 2..Len(calls) :
           /\ k - 1 <= Len(Followers)
           /\ calls[k].node = Followers[k - 1].node_id
AttemptsBounded ==
    /\ Cardinality(ProposalIdx) <= 1
    /\ Cardinality(RemoteTo(args.replica.leader_node_id)) <= 1
    /\ OneCallPerVnode
    /\ Cardinality(RemoteIdx) <= 1 + Len(Followers)
    /\ OnLocalPath => Cardinality(RemoteIdx) <= 1

\* How many calls the write can still make, at most, counting the
\* dispatch and the return of an exhausted loop.
StepsLeft ==
    CASE pc = "start" -> 4 + Len(args.replica.vnodes) + 6
      [] pc = "local" -> 6
      [] pc = "propose" -> 5
      [] pc = "vnode_info" -> 4
      [] pc = "tenant_meta" -> 3
      [] pc = "change_leader" -> 2
      [] pc = "forward" -> 1
      [] pc = "remote" -> 3 + Len(args.replica.vnodes)
      [] pc = "failover" -> 2 + Len(args.replica.vnodes) - vnode_idx
      [] OTHER -> 0
\* The write is never stuck before it has returned, and every step brings
\* it nearer to its return.
Terminates == (Dispatched /\ ~Done) => (ENABLED WriterNext /\ StepsLeft > 0)
StepsLeftDecreases == Dispatched => StepsLeft' < StepsLeft

BitmapCoversRows ==
    \A i \in 0..(NullBitset(col_page).len - 1) : BitInBuffer(NullBitset(col_page), i)
SurplusPayload ==
    /\ SupportedPage
    /\ EnvelopeInRange(col_page)
    /\ BitmapCoversRows
    /\ DecodedTarget.ok
    /\ Len(DecodedTarget.target) > Popcount(NullBitset(col_page))
IsPresent(v) == v # None
\* The values of the rows of the returned column that hold one, in row order.
PresentValues ==
    LET present == SelectSeq(col_ret.col.data, IsPresent)
    IN  [k \in 1..Len(present) |-> present[k][1].v]

\* C39: to_column of a page (of a supported type, with a bitmap that covers
\* its row count) whose payload decodes to more values than the bitmap has
\* set bits succeeds: the rows that hold a value hold the first popcount
\* decoded values in order, and the values after them are in no row.
C39_SurplusPayloadAccepted ==
    (ToColumnCalled /\ SurplusPayload) =>
      /\ ToColumnOk
      /\ Len(col_ret.col.data) = NullBitset(col_page).len
      /\ PresentValues =
           SubSeq(DecodedTarget.target, 1, Popcount(NullBitset(col_page)))
      /\ Len(PresentValues) < Len(DecodedTarget.target)

\* Two rows hold the first two of three decoded values.
C39_Witness ==
    /\ ToColumnCalled
    /\ SurplusPayload
    /\ ToColumnOk
    /\ Popcount(NullBitset(col_page)) = 2
    /\ Len(DecodedTarget.target) = 3
    /\ DecodedTarget.target[1] # DecodedTarget.target[2]

(***************************************************************************)
(* A partition that has ended.                                             *)
(***************************************************************************)
HasEnded(i) == \E k \in 1..Len(cursor_polled[i]) : cursor_polled[i][k].item = StreamEnd
EndIsFinal(i) ==
    \A k \in 1..Len(cursor_polled[i]) :
      cursor_polled[i][k].item = StreamEnd =>
        \A later \in (k + 1)..Len(cursor_polled[i]) :
          cursor_polled[i][later] = Polled(StreamEnd, None)
EndedPartitions ==
    cursor_stream.kind = "Ok" =>
      \A i \in 1..Len(cursor_polled) :
        /\ EndIsFinal(i)
        /\ HasEnded(i) <=> cursor_stream.streams[i].done
        /\ Delivered(i) = SelectSeq(Consumed(i), NotEmptyBatch)
EndedPartitionNotPolled ==
    cursor_stream.kind = "Ok" =>
      \A i \in 1..Len(cursor_polled) :
        HasEnded(i) =>
          /\ cursor_stream'.streams[i] = cursor_stream.streams[i]
          /\ \/ cursor_polled'[i] = cursor_polled[i]
             \/ cursor_polled'[i] = Append(cursor_polled[i], Polled(StreamEnd, None))

\* C38: once poll_next(idx) has reported the end of partition idx, every
\* later poll_next(idx) reports the end again and takes nothing from the
\* stream of that partition, whatever that stream would yield if polled;
\* every partition, ended partitions beside it or not, returns the batches
\* and errors of its own stream.
C38_EndIsSticky ==
    /\ []EndedPartitions
    /\ [][EndedPartitionNotPolled]_vars

\* Partition 1 has yielded None with a batch still behind it and has then
\* been polled again; partition 2 has delivered a batch.
C38_Witness ==
    /\ cursor_stream.kind = "Ok"
    /\ Len(cursor_polled) = 2
    /\ Len(cursor_polled[1]) = 2
    /\ cursor_polled[1][1].item = StreamEnd
    /\ cursor_polled[1][2].item = StreamEnd
    /\ cursor_stream.streams[1].items # <<>>
    /\ \E k \in 1..Len(cursor_polled[2]) : cursor_polled[2][k].item.kind = "batch"

====
